---- MODULE Spec2Model ----
(***************************************************************************)
(* A model of the pocket-drs analysis server: the ball trackers, the LBW   *)
(* decision engines, the tap calibration, the pipeline orchestrator and    *)
(* the job worker.  Each subsystem has its own specification over the one  *)
(* set of variables; a specification leaves the other subsystems' state    *)
(* untouched.                                                              *)
(*                                                                         *)
(* Units.  Confidences are in hundredths (95 is 0.95).  Lateral offsets    *)
(* y are in centimetres, the LBW thresholds in units of 0.1 mm.  Pixel     *)
(* coordinates are integers.  An optional value (Python's None) is a       *)
(* sequence of length 0 or 1.                                              *)
(***************************************************************************)
EXTENDS Integers, Sequences, FiniteSets, TLC

VARIABLES
    \* ---- ball trackers (process_job._track_points, tracking.track_seeded,
    \*      tracking.track_auto)
    tracker,      \* which tracker function is running
    mode,         \* _track_points' mode argument
    seed_xy,      \* optional seed position
    frames_n,     \* len(frames_bgr)
    times_ms,     \* the timestamps list
    cands,        \* track_auto: the motion candidates of every frame pair
    trk_i,        \* number of frames the loop has consumed
    track,        \* the output list of TrackPoints
    last_xy,      \* _track_points: last chosen position (optional)
    prev_xy,      \* _track_points: the one before (optional)
    kf,           \* track_seeded / track_auto: the Kalman2D filter (optional)
    last_meas,    \* track_seeded / track_auto: last measurement (optional)
    outcome,      \* per consumed frame: how its measurement was found
    trk_pc,       \* "start" | "loop" | "done" | "raised"
    \* ---- LBW decision engines (process_job._assess_lbw_2d, lbw.assess_lbw)
    lbw_pts,      \* the ground-plane trajectory: the y of every point
    lbw_fn,       \* which engine was called ("" before the call)
    lbw_bounce,   \* the bounce_index / pitch_index argument
    lbw_impact,   \* the impact_index argument (_assess_lbw_2d only)
    lbw_confs,    \* the point_confidences argument (optional list)
    lbw_out,      \* what the call did: an assessment, None, or an exception
    \* ---- tap calibration (process_job._compute_taps_homography)
    cal_corners,  \* the corners_px argument
    cal_dims,     \* <<pitch_length_m, pitch_width_m>>
    cal_stumps,   \* the stump_bases_px argument (optional list)
    cv_none,      \* the point lists on which cv2.findHomography returns None
    cal_out,      \* what the call did: a homography with notes, or an exception
    cal_prev,     \* the outcome of the previous call of the same request (optional)
    cal_pc,       \* "ready" | "done"
    \* ---- job server (main.create_job, main._process_job, jobs.JobStore) and
    \*      the pipeline orchestrator (process_job.run_pipeline)
    workload,     \* how many jobs the clients submit, with which frame counts
    job_status,   \* per job id: the status file, or "absent"
    job_result,   \* per job id: whether the result file has been written
    job_req,      \* per job id: the request (sampled frames, calibration mode)
    job_pc,       \* per job id: where its worker is
    job_i,        \* per job id: the decode loop's index
    job_log,      \* per job id: the progress callbacks so far, <<pct, stage>>
    exec_queue,   \* the executor's queue of submitted jobs
    log_handlers, \* the jobs whose file handlers are attached to the logger
                  \* "pocket_drs.job"
    log_files,    \* per job id: the records in its two log files, each as
                  \* <<the job that emitted it, the job id it is tagged with>>
    \* ---- one client polling the status and result endpoints
    rq,           \* the request being served and what it has read so far
    \* ---- event estimators (events.estimate_bounce_index,
    \*      events.estimate_impact_index)
    ev_y,         \* the y_px argument: the pixel y of every track point
    ev_bounce,    \* the bounce EventEstimate returned (optional)
    ev_impact,    \* the impact EventEstimate returned (optional)
    \* ---- one call of process_job.run_pipeline in detail, and the status
    \*      main._process_job writes when it ends
    run_req,      \* request_json: segment, tracking, calibration, overrides
    run_pc,       \* where the call is
    run_times,    \* times_ms: the sampled timestamps
    run_frames,   \* frames: for every stored frame, the sample it was decoded from
    run_warnings, \* warnings: the samples whose decode failed
    run_res,      \* the payloads of the result built so far
    run_out       \* the exception raised (if any) and the status written

trkVars == <<tracker, mode, seed_xy, frames_n, times_ms, cands, trk_i, track,
             last_xy, prev_xy, kf, last_meas, outcome, trk_pc>>

lbwVars == <<lbw_pts, lbw_fn, lbw_bounce, lbw_impact, lbw_confs, lbw_out>>

calVars == <<cal_corners, cal_dims, cal_stumps, cv_none, cal_out, cal_prev, cal_pc>>

jobVars == <<workload, job_status, job_result, job_req, job_pc, job_i, job_log,
             exec_queue, log_handlers, log_files>>

reqVars == <<rq>>

evVars == <<ev_y, ev_bounce, ev_impact>>

runVars == <<run_req, run_pc, run_times, run_frames, run_warnings, run_res, run_out>>

vars == <<trkVars, lbwVars, calVars, jobVars, evVars, runVars, reqVars>>

\* What each subsystem's actions leave alone.
notTrk == <<lbwVars, calVars, jobVars, evVars, runVars, reqVars>>
notLbw == <<trkVars, calVars, jobVars, evVars, runVars, reqVars>>
notCal == <<trkVars, lbwVars, jobVars, evVars, runVars, reqVars>>
notJob == <<trkVars, lbwVars, calVars, evVars, runVars, reqVars>>
notEv == <<trkVars, lbwVars, calVars, jobVars, runVars, reqVars>>
notRun == <<lbwVars, calVars, jobVars, evVars, reqVars>>
notReq == <<trkVars, lbwVars, calVars, jobVars, evVars, runVars>>

None == <<>>
Some(v) == <<v>>
IsNone(o) == o = <<>>
Val(o) == o[1]

Abs(v) == IF v < 0 THEN -v ELSE v
Max(a, b) == IF a >= b THEN a ELSE b
Min(a, b) == IF a <= b THEN a ELSE b

(***************************************************************************)
(* The state of a subsystem that a specification does not run.             *)
(***************************************************************************)
TrkIdle ==
    /\ tracker = "" /\ mode = "" /\ seed_xy = None /\ frames_n = 0
    /\ times_ms = <<>> /\ cands = <<>> /\ trk_i = 0 /\ track = <<>>
    /\ last_xy = None /\ prev_xy = None /\ kf = None /\ last_meas = None
    /\ outcome = <<>> /\ trk_pc = "idle"

LbwIdle ==
    /\ lbw_pts = <<>> /\ lbw_fn = "" /\ lbw_bounce = 0 /\ lbw_impact = 0
    /\ lbw_confs = None /\ lbw_out = [status |-> "idle"]

CalIdle ==
    /\ cal_corners = <<>> /\ cal_dims = <<0, 0>> /\ cal_stumps = None
    /\ cv_none = {} /\ cal_out = [status |-> "idle"] /\ cal_prev = None
    /\ cal_pc = "idle"

JobIdle ==
    /\ workload = <<>> /\ job_status = <<>> /\ job_result = <<>>
    /\ job_req = <<>> /\ job_pc = <<>> /\ job_i = <<>> /\ job_log = <<>>
    /\ exec_queue = <<>> /\ log_handlers = {} /\ log_files = <<>>

ReqIdle == rq = [pc |-> "idle"]

EvIdle == ev_y = <<>> /\ ev_bounce = None /\ ev_impact = None

RunIdle ==
    /\ run_req = <<>> /\ run_pc = "idle" /\ run_times = <<>> /\ run_frames = <<>>
    /\ run_warnings = <<>> /\ run_res = <<>> /\ run_out = <<>>

(***************************************************************************)
(* Bounds of the tracker model.                                            *)
(***************************************************************************)
MaxTrackFrames == 3

\* Sample period of the timestamps handed to the tracker (ms).
TrackDtMs == 33

TimesOf(n) == [k \in 1..n |-> (k - 1) * TrackDtMs]

(***************************************************************************)
(* MotionBallDetector.detect(frame): a list of {x, y, confidence} dicts.   *)
(* The class is imported by process_job.py but its source is not part of   *)
(* the repository snapshot, so its output is taken from the spec's Blob    *)
(* Extractor interface: candidate centroids with a strength score.         *)
(***************************************************************************)
DetPositions == {<<0, 0>>, <<100, 0>>, <<100, 120>>, <<400, 0>>}
DetConfidences == {50, 90}
Detection == [x : {p[1] : p \in DetPositions}, y : {p[2] : p \in DetPositions},
              confidence : DetConfidences]
Dets == {d \in Detection : <<d.x, d.y>> \in DetPositions}
DetLists == {<<>>} \cup {<<d>> : d \in Dets} \cup {<<d, e>> : d \in Dets, e \in Dets}

\* search_radius_px handed to _track_points by run_pipeline.
SearchRadiusPx == 160

\* max(dets, key=confidence): the first element with the largest confidence.
RECURSIVE MaxByConfidence(_)
MaxByConfidence(ds) ==
    IF Len(ds) = 1 THEN ds[1]
    ELSE LET r == MaxByConfidence(Tail(ds))
         IN IF ds[1].confidence >= r.confidence THEN ds[1] ELSE r

\* Constant-velocity prediction in pixel space.
Predict(last, prev) ==
    IF IsNone(prev) THEN Val(last)
    ELSE <<Val(last)[1] + (Val(last)[1] - Val(prev)[1]),
           Val(last)[2] + (Val(last)[2] - Val(prev)[2])>>

Dist2(d, pred) == (d.x - pred[1]) * (d.x - pred[1]) + (d.y - pred[2]) * (d.y - pred[2])

\* The gated nearest detection: the loop keeps the first detection with the
\* strictly smallest squared distance among those within the search radius.
RECURSIVE NearestGated(_, _, _)
NearestGated(ds, pred, best) ==
    IF ds = <<>> THEN best
    ELSE LET d == ds[1]
             ok == /\ Dist2(d, pred) <= SearchRadiusPx * SearchRadiusPx
                   /\ (IsNone(best) \/ Dist2(d, pred) < Dist2(Val(best), pred))
         IN NearestGated(Tail(ds), pred, IF ok THEN Some(d) ELSE best)

\* How _track_points picks the detection of one frame: <<chosen, outcome>>.
ChooseDetection(ds, last, prev) ==
    IF ds = <<>> THEN <<None, "none">>
    ELSE IF IsNone(last) THEN <<Some(MaxByConfidence(ds)), "first">>
    ELSE LET best == NearestGated(ds, Predict(last, prev), None)
         IN IF IsNone(best) THEN <<Some(MaxByConfidence(ds)), "ungated">>
            ELSE <<best, "gated">>

\* Confidence of a frame without a detection in _track_points.
GapConfidence == 5

TrackPoint(t, x, y, c) == [t_ms |-> t, x_px |-> x, y_px |-> y, confidence |-> c]

(***************************************************************************)
(* process_job._track_points                                               *)
(***************************************************************************)
track_points_enter ==
    /\ tracker = "track_points" /\ trk_pc = "start"
    /\ IF frames_n # Len(times_ms)
       THEN trk_pc' = "raised" /\ UNCHANGED last_xy        \* ValueError
       ELSE IF mode = "seeded" /\ IsNone(seed_xy)
       THEN trk_pc' = "raised" /\ UNCHANGED last_xy        \* ValueError
       ELSE /\ trk_pc' = "loop"
            /\ last_xy' = IF mode = "seeded" THEN seed_xy ELSE None
    /\ UNCHANGED notTrk
    /\ UNCHANGED <<tracker, mode, seed_xy, frames_n, times_ms, cands, trk_i,
                   track, prev_xy, kf, last_meas, outcome>>

\* One iteration of the frame loop with the detector's output ds.
track_points_iter(ds) ==
    LET ch == ChooseDetection(ds, last_xy, prev_xy)
        chosen == ch[1]
        t == times_ms[trk_i + 1]
    IN /\ outcome' = Append(outcome, ch[2])
       /\ trk_i' = trk_i + 1
       /\ IF IsNone(chosen)
          THEN /\ UNCHANGED <<last_xy, prev_xy>>
               /\ track' = IF IsNone(last_xy)
                           THEN track                       \* continue
                           ELSE Append(track, TrackPoint(t, Val(last_xy)[1],
                                                         Val(last_xy)[2], GapConfidence))
          ELSE /\ prev_xy' = last_xy
               /\ last_xy' = Some(<<Val(chosen).x, Val(chosen).y>>)
               /\ track' = Append(track, TrackPoint(t, Val(chosen).x, Val(chosen).y,
                                                    Val(chosen).confidence))

track_points_frame ==
    /\ tracker = "track_points" /\ trk_pc = "loop" /\ trk_i < frames_n
    /\ \E ds \in DetLists : track_points_iter(ds)
    /\ UNCHANGED notTrk
    /\ UNCHANGED <<tracker, mode, seed_xy, frames_n, times_ms, cands, kf,
                   last_meas, trk_pc>>

track_points_return ==
    /\ tracker = "track_points" /\ trk_pc = "loop" /\ trk_i = frames_n
    /\ trk_pc' = "done"
    /\ UNCHANGED notTrk
    /\ UNCHANGED <<tracker, mode, seed_xy, frames_n, times_ms, cands, trk_i,
                   track, last_xy, prev_xy, kf, last_meas, outcome>>

(***************************************************************************)
(* tracking.Kalman2D.  The filter's floating-point state is a function of  *)
(* the measurement it was built from and of the predict / update calls     *)
(* made since; the model keeps exactly that history.                       *)
(***************************************************************************)
Kalman2D(meas) == [init |-> meas, ops |-> <<>>]
KfPredict(k, dt) == [k EXCEPT !.ops = Append(@, <<"predict", dt>>)]
KfUpdate(k, meas) == [k EXCEPT !.ops = Append(@, <<"update", meas>>)]
KfPosX(k) == <<"kf.x", k.init, k.ops>>
KfPosY(k) == <<"kf.y", k.init, k.ops>>

\* dt of the predict call of frame i (0-based), in milliseconds:
\* 1/30 s on the first frame, else max(0.001 s, the timestamps' difference).
FirstDtMs == 33
MinDtMs == 1
FrameDt(i) == IF i > 0 THEN Max(MinDtMs, times_ms[i + 1] - times_ms[i]) ELSE FirstDtMs

(***************************************************************************)
(* tracking.track_seeded                                                   *)
(***************************************************************************)
\* Centroids the colour mask can yield inside the search window.
Centroids == {<<10, 10>>, <<50, 20>>}

SeededMatchConfidence == 95
SeededMissConfidence == 35

track_seeded_enter ==
    /\ tracker = "track_seeded" /\ trk_pc = "start"
    /\ trk_pc' = IF frames_n # Len(times_ms) THEN "raised"      \* ValueError
                 ELSE IF frames_n = 0 THEN "done"               \* return []
                 ELSE "loop"
    /\ UNCHANGED notTrk
    /\ UNCHANGED <<tracker, mode, seed_xy, frames_n, times_ms, cands, trk_i,
                   track, last_xy, prev_xy, kf, last_meas, outcome>>

\* One iteration with the mask's centroid (None when no pixel matches).
track_seeded_iter(centroid) ==
    LET confidence == IF IsNone(centroid) THEN SeededMissConfidence
                      ELSE SeededMatchConfidence
        meas == IF IsNone(centroid) /\ ~IsNone(last_meas) THEN last_meas ELSE centroid
        kf1 == IF IsNone(kf) /\ ~IsNone(meas) THEN Some(Kalman2D(Val(meas))) ELSE kf
        kf2 == IF IsNone(kf1) THEN kf1 ELSE Some(KfPredict(Val(kf1), FrameDt(trk_i)))
        upd == ~IsNone(meas) /\ ~IsNone(kf2)
        kf3 == IF upd THEN Some(KfUpdate(Val(kf2), Val(meas))) ELSE kf2
        lm == IF upd THEN meas ELSE last_meas
        px == IF ~IsNone(kf3) THEN KfPosX(Val(kf3))
              ELSE IF ~IsNone(lm) THEN Val(lm)[1] ELSE Val(seed_xy)[1]
        py == IF ~IsNone(kf3) THEN KfPosY(Val(kf3))
              ELSE IF ~IsNone(lm) THEN Val(lm)[2] ELSE Val(seed_xy)[2]
    IN /\ kf' = kf3
       /\ last_meas' = lm
       /\ outcome' = Append(outcome, IF IsNone(centroid) THEN "none" ELSE "gated")
       /\ track' = Append(track, TrackPoint(times_ms[trk_i + 1], px, py, confidence))
       /\ trk_i' = trk_i + 1

track_seeded_frame ==
    /\ tracker = "track_seeded" /\ trk_pc = "loop" /\ trk_i < frames_n
    /\ \E c \in {None} \cup {Some(p) : p \in Centroids} : track_seeded_iter(c)
    /\ UNCHANGED notTrk
    /\ UNCHANGED <<tracker, mode, seed_xy, frames_n, times_ms, cands, last_xy,
                   prev_xy, trk_pc>>

track_seeded_return ==
    /\ tracker = "track_seeded" /\ trk_pc = "loop" /\ trk_i = frames_n
    /\ trk_pc' = "done"
    /\ UNCHANGED notTrk
    /\ UNCHANGED <<tracker, mode, seed_xy, frames_n, times_ms, cands, trk_i,
                   track, last_xy, prev_xy, kf, last_meas, outcome>>

(***************************************************************************)
(* tracking.track_auto                                                     *)
(***************************************************************************)
\* A motion candidate of _find_motion_centroids as the gate sees it: its
\* squared distance to the filter's predicted position and its area.
\* The lists are sorted by area, largest first, as the function returns them.
CandFar == [id |-> "far", dist2 |-> 2000, area |-> 50]
CandNearBig == [id |-> "nearBig", dist2 |-> 400, area |-> 100]
CandNearSmall == [id |-> "nearSmall", dist2 |-> 399, area |-> 6]
CandLists == {<<>>, <<CandFar>>, <<CandNearBig>>, <<CandFar, CandNearSmall>>,
              <<CandNearBig, CandNearSmall>>}

\* search_radius_px default of track_auto, and the floor max(12, .) on it.
AutoSearchRadiusPx == 36
MinSearchRadiusPx == 12
\* Number of leading frames the bootstrap looks at: range(1, min(6, n)).
BootstrapFrames == 6
\* cands[:8]
MaxGateCands == 8

AutoHitConfidence == 75
AutoInitConfidence == 25
AutoGapConfidence == 20
AutoLostConfidence == 10

\* cost = dist2 - 0.15 * area, in hundredths.
Cost(c) == 100 * c.dist2 - 15 * c.area

RECURSIVE GateBest(_, _)
GateBest(cs, best) ==
    IF cs = <<>> THEN best
    ELSE LET c == cs[1]
             r == Max(MinSearchRadiusPx, AutoSearchRadiusPx)
             ok == /\ ~(c.dist2 > r * r)
                   /\ (IsNone(best) \/ Cost(c) < Cost(Val(best)))
         IN GateBest(Tail(cs), IF ok THEN Some(c) ELSE best)

\* The first frame pair of the bootstrap window with a candidate (0 if none).
BootstrapHits == {i \in 1..(Min(BootstrapFrames, frames_n) - 1) : cands[i] # <<>>}
BootstrapIndex ==
    IF BootstrapHits = {} THEN 0
    ELSE CHOOSE i \in BootstrapHits : \A j \in BootstrapHits : i <= j

track_auto_enter ==
    /\ tracker = "track_auto" /\ trk_pc = "start"
    /\ IF frames_n # Len(times_ms)
       THEN trk_pc' = "raised" /\ UNCHANGED <<kf, last_meas>>     \* ValueError
       ELSE IF frames_n = 0
       THEN trk_pc' = "done" /\ UNCHANGED <<kf, last_meas>>       \* return []
       ELSE IF frames_n < 2 \/ BootstrapIndex = 0
       THEN trk_pc' = "raised" /\ UNCHANGED <<kf, last_meas>>     \* TrackingError
       ELSE LET init == <<BootstrapIndex, cands[BootstrapIndex][1].id>>
            IN /\ kf' = Some(Kalman2D(init))
               /\ last_meas' = Some(init)
               /\ trk_pc' = "loop"
    /\ UNCHANGED notTrk
    /\ UNCHANGED <<tracker, mode, seed_xy, frames_n, times_ms, cands, trk_i,
                   track, last_xy, prev_xy, outcome>>

track_auto_frame ==
    /\ tracker = "track_auto" /\ trk_pc = "loop" /\ trk_i < frames_n
    /\ LET i == trk_i
           kf1 == KfPredict(Val(kf), FrameDt(i))
           best == IF i > 0 THEN GateBest(SubSeq(cands[i], 1, Min(MaxGateCands, Len(cands[i]))), None)
                   ELSE None
           meas == IF IsNone(best) THEN None ELSE Some(<<i, Val(best).id>>)
           confidence == IF ~IsNone(meas) THEN AutoHitConfidence
                         ELSE IF ~IsNone(last_meas) THEN AutoGapConfidence
                         ELSE AutoLostConfidence
           kf2 == IF IsNone(meas) THEN kf1 ELSE KfUpdate(kf1, Val(meas))
       IN /\ kf' = Some(kf2)
          /\ last_meas' = IF IsNone(meas) THEN last_meas ELSE meas
          /\ outcome' = Append(outcome, IF IsNone(meas) THEN "none" ELSE "gated")
          /\ track' = Append(track, TrackPoint(times_ms[i + 1], KfPosX(kf2),
                                               KfPosY(kf2), confidence))
          /\ trk_i' = i + 1
    /\ UNCHANGED notTrk
    /\ UNCHANGED <<tracker, mode, seed_xy, frames_n, times_ms, cands, last_xy,
                   prev_xy, trk_pc>>

track_auto_return ==
    /\ tracker = "track_auto" /\ trk_pc = "loop" /\ trk_i = frames_n
    /\ trk_pc' = "done"
    /\ UNCHANGED notTrk
    /\ UNCHANGED <<tracker, mode, seed_xy, frames_n, times_ms, cands, trk_i,
                   track, last_xy, prev_xy, kf, last_meas, outcome>>

(***************************************************************************)
(* The tracker specification: one call of one tracker on frames_n frames.  *)
(***************************************************************************)
SeedPx == <<0, 0>>

TrackInit ==
    /\ tracker \in {"track_points", "track_seeded", "track_auto"}
    /\ mode \in {"seeded", "auto"}
    /\ tracker = "track_seeded" => mode = "seeded"
    /\ tracker = "track_auto" => mode = "auto"
    /\ seed_xy \in {None, Some(SeedPx)}
    /\ tracker = "track_seeded" => seed_xy = Some(SeedPx)
    /\ tracker = "track_auto" => seed_xy = None
    /\ frames_n \in 0..MaxTrackFrames
    /\ \E n \in {frames_n, frames_n + 1} : times_ms = TimesOf(n)
    /\ IF tracker = "track_auto"
       THEN cands \in [1..(frames_n - 1) -> CandLists]
       ELSE cands = <<>>
    /\ trk_i = 0
    /\ track = <<>>
    /\ last_xy = None
    /\ prev_xy = None
    /\ kf = None
    /\ last_meas = None
    /\ outcome = <<>>
    /\ trk_pc = "start"
    /\ LbwIdle /\ CalIdle /\ JobIdle /\ EvIdle /\ RunIdle /\ ReqIdle

TrackNext ==
    \/ track_points_enter
    \/ track_points_frame
    \/ track_points_return
    \/ track_seeded_enter
    \/ track_seeded_frame
    \/ track_seeded_return
    \/ track_auto_enter
    \/ track_auto_frame
    \/ track_auto_return

SpecTrack == TrackInit /\ [][TrackNext]_vars

Returned == trk_pc = "done" /\ frames_n >= 1 /\ Len(times_ms) = frames_n

\* C1: whenever a tracker returns for N >= 1 frames with N matching
\* timestamps, in seeded and in auto mode, it returns exactly N track points,
\* the i-th carrying the i-th timestamp and a confidence in [0, 1], whatever
\* the detection outcomes of the frames were.
C1_OnePointPerFrame ==
    Returned =>
        /\ Len(track) = frames_n
        /\ \A k \in 1..frames_n :
              /\ track[k].t_ms = times_ms[k]
              /\ track[k].confidence \in 0..100

\* C2: a detection gap never shortens the returned track, and every frame
\* without a detection has a strictly lower confidence than every frame of
\* the same track with one.
C2_GapsDegradeNeverTruncate ==
    Returned =>
        /\ Len(track) = frames_n
        /\ \A g \in 1..frames_n : \A d \in 1..frames_n :
              (outcome[g] = "none" /\ outcome[d] # "none")
                  => track[g].confidence < track[d].confidence

\* A call of an auto-mode tracker with matching frames and timestamps.
AutoCall ==
    /\ mode = "auto"
    /\ tracker \in {"track_points", "track_auto"}
    /\ Len(times_ms) = frames_n

\* Some frame of the bootstrap window gave the tracker a candidate.
HadBootstrapCandidate ==
    IF tracker = "track_auto" THEN BootstrapIndex # 0
    ELSE \E k \in 1..Min(BootstrapFrames, frames_n) : outcome[k] # "none"

\* C13: in auto mode the tracker never returns a track when it is given
\* fewer than 2 frames, nor when no candidate is found among the first 6
\* frames: a returned, non-empty track implies at least 2 frames and a
\* candidate in the bootstrap window.
C13_AutoNeedsTwoFramesAndBootstrap ==
    (AutoCall /\ trk_pc = "done" /\ track # <<>>)
        => (frames_n >= 2 /\ HadBootstrapCandidate)

(***************************************************************************)
(* The LBW decision engines.                                               *)
(*                                                                         *)
(* A trajectory is the list of its lateral offsets y (cm); point i         *)
(* (0-based) of an n-point trajectory lies x = n - i metres in front of    *)
(* the stumps, so the ball approaches the stump line x = 0.  A fitted      *)
(* value is the exact rational <<numerator, denominator>> (cm) of the      *)
(* least-squares solution the code computes in floating point.             *)
(***************************************************************************)
MaxPts == 6
\* Longest trajectory handed to _assess_lbw_2d.
MaxPts2d == 4

\* Lateral offsets of the input points (cm): both sides of the pitch, inside
\* the stumps, in the clipping band and well outside.
LbwYs == {-12, 0, 30}

\* The confidence shared by all points of a supplied point_confidences list.
LbwConf == 90

\* 0.2286 / 2, 0.036 and 0.01 m in units of 0.1 mm; one cm in these units.
HalfWicketWidth == 1143
BallRadius == 360
Margin2d == 100
UnitsPerCm == 100

LineThresh == HalfWicketWidth + BallRadius

PointX(i, n) == n - i
PointY(pts, i) == pts[i + 1]

\* n/d <= a/b for n, a >= 0 and d, b > 0, by continued fractions (no product
\* is formed, so no intermediate value leaves the integer range).
RECURSIVE LeqFrac(_, _, _, _)
LeqFrac(n, d, a, b) ==
    IF n \div d # a \div b THEN n \div d < a \div b
    ELSE IF n % d = 0 THEN TRUE
    ELSE IF a % b = 0 THEN FALSE
    ELSE LeqFrac(b, a % b, d, n % d)

\* |y| <= t and |y| >= t for a fitted value y (cm) and a threshold t (0.1 mm).
AbsLeq(y, t) == LeqFrac(Abs(y[1]), y[2], t, UnitsPerCm)
AbsGeq(y, t) == LeqFrac(t, UnitsPerCm, Abs(y[1]), y[2])

Frac(n, d) == IF d < 0 THEN <<-n, -d>> ELSE <<n, d>>

RECURSIVE Pow(_, _)
Pow(b, e) == IF e = 0 THEN 1 ELSE b * Pow(b, e - 1)

\* sum over the window lo..hi (0-based) of w * x^k and of w * x^k * y.
RECURSIVE SumX(_, _, _, _, _)
SumX(n, lo, hi, k, w) ==
    IF lo > hi THEN 0
    ELSE w * Pow(PointX(lo, n), k) + SumX(n, lo + 1, hi, k, w)

RECURSIVE SumXY(_, _, _, _, _)
SumXY(pts, lo, hi, k, w) ==
    IF lo > hi THEN 0
    ELSE w * Pow(PointX(lo, Len(pts)), k) * PointY(pts, lo)
         + SumXY(pts, lo + 1, hi, k, w)

Det3(a, b, c, d, e, f, g, h, i) ==
    a * (e * i - f * h) - b * (d * i - f * g) + c * (d * h - e * g)

\* np.polyfit(xs, ys, deg, w) evaluated at 0: the constant coefficient of
\* the weighted least-squares polynomial, by Cramer's rule on the normal
\* equations.  All weights of a call are equal (a uniform confidence list,
\* or ones), and the minimiser does not change when they are scaled, so the
\* sums are taken with weight 1.  The xs of a window are distinct, so the
\* system is regular.
PolyfitAtZero(pts, lo, hi) ==
    LET n == Len(pts)
        S(k) == SumX(n, lo, hi, k, 1)
        T(k) == SumXY(pts, lo, hi, k, 1)
    IN IF hi - lo + 1 >= 3
       THEN Frac(Det3(T(0), S(1), S(2), T(1), S(2), S(3), T(2), S(3), S(4)),
                 Det3(S(0), S(1), S(2), S(1), S(2), S(3), S(2), S(3), S(4)))
       ELSE Frac(T(0) * S(2) - S(1) * T(1), S(0) * S(2) - S(1) * S(1))

ClampIndex(i, n) == Max(0, Min(n - 1, i))

\* sum over the window lo..hi (0-based) of y^2.
RECURSIVE SumYY(_, _, _)
SumYY(pts, lo, hi) ==
    IF lo > hi THEN 0
    ELSE PointY(pts, lo) * PointY(pts, lo) + SumYY(pts, lo + 1, hi)

\* The fit quality 1 - ss_res / ss_tot of the least-squares polynomial of
\* degree deg (1 or 2) on the window, as a fraction in [0, 1].  The residual
\* of a least-squares fit is orthogonal to the fitted values, so
\*   ss_res = sum y^2 - (c0 T0 + c1 T1 + c2 T2),  c_k = N_k / D  (Cramer),
\* and ss_tot = sum y^2 - T0^2 / m.  at_zero is the value the code returns
\* when ss_tot is (numerically) zero.
FitRSquared(pts, lo, hi, deg, at_zero) ==
    LET n == Len(pts)
        m == hi - lo + 1
        S(k) == SumX(n, lo, hi, k, 1)
        T(k) == SumXY(pts, lo, hi, k, 1)
        YY == SumYY(pts, lo, hi)
        D == IF deg = 2
             THEN Det3(S(0), S(1), S(2), S(1), S(2), S(3), S(2), S(3), S(4))
             ELSE S(0) * S(2) - S(1) * S(1)
        NT == IF deg = 2
              THEN Det3(T(0), S(1), S(2), T(1), S(2), S(3), T(2), S(3), S(4)) * T(0)
                   + Det3(S(0), T(0), S(2), S(1), T(1), S(3), S(2), T(2), S(4)) * T(1)
                   + Det3(S(0), S(1), T(0), S(1), S(2), T(1), S(2), S(3), T(2)) * T(2)
              ELSE (T(0) * S(2) - S(1) * T(1)) * T(0)
                   + (S(0) * T(1) - S(1) * T(0)) * T(1)
        A == m * (D * YY - NT)
        B == D * (m * YY - T(0) * T(0))
    IN IF m * YY - T(0) * T(0) = 0 THEN at_zero
       ELSE IF A <= 0 THEN <<1, 1>>
       ELSE IF A >= B THEN <<0, 1>>
       ELSE <<B - A, B>>

\* _assess_lbw_2d: r2 (0.0 when ss_tot <= 1e-12, clipped to [0, 1]) and
\* confidence = clip(0.2 + 0.8 * r2, 0, 1), both as fractions.
RSquared2d(pts, lo, hi) ==
    FitRSquared(pts, lo, hi, IF hi - lo + 1 >= 3 THEN 2 ELSE 1, <<0, 1>>)

Confidence2d(r2) == <<r2[2] + 4 * r2[1], 5 * r2[2]>>

\* The weights the fit is given: the confidences when the list has one entry
\* per plane point, else ones (100 is 1.0).
Weights2d(confs, n, lo, hi) ==
    IF ~IsNone(confs) /\ Len(Val(confs)) = n
    THEN [k \in 1..(hi - lo + 1) |-> Val(confs)[lo + k]]
    ELSE [k \in 1..(hi - lo + 1) |-> 100]

\* A decision that skips the impact-in-line test.
Decision2d_NoImpactTest(pitched_in_line, impact_in_line, hitting, y_at_stumps) ==
    IF ~pitched_in_line THEN <<"not_out", "Pitched outside leg stump">>
    ELSE IF hitting /\ AbsGeq(y_at_stumps, LineThresh - Margin2d)
    THEN <<"umpires_call", "Projected clipping stumps (margin)">>
    ELSE IF hitting THEN <<"out", "Projected to hit stumps">>
    ELSE <<"not_out", "Projected to miss stumps">>

Decision2d(pitched_in_line, impact_in_line, hitting, y_at_stumps) ==
    IF ~pitched_in_line THEN <<"not_out", "Pitched outside leg stump">>
    ELSE IF ~impact_in_line THEN <<"not_out", "Impact outside off stump line">>
    ELSE IF hitting /\ AbsGeq(y_at_stumps, LineThresh - Margin2d)
    THEN <<"umpires_call", "Projected clipping stumps (margin)">>
    ELSE IF hitting THEN <<"out", "Projected to hit stumps">>
    ELSE <<"not_out", "Projected to miss stumps">>

\* process_job._assess_lbw_2d
assess_lbw_2d(pts, bounce_index, impact_index, confs) ==
    LET n == Len(pts)
        bounce_i == ClampIndex(bounce_index, n)
        impact_c == ClampIndex(impact_index, n)
        impact_i == IF impact_c <= 0 THEN n - 1 ELSE impact_c
        i0 == Max(0, Min(bounce_i, impact_i))
        i1 == Max(i0 + 1, impact_i)
        pitch_y == PointY(pts, bounce_i)
        imp_y == PointY(pts, impact_i)
        y_at_stumps == PolyfitAtZero(pts, i0, i1)
        leg_sign == IF imp_y < 0 THEN -1 ELSE 1
        pitched_in_line == ~(pitch_y * leg_sign * UnitsPerCm > LineThresh)
        impact_in_line == Abs(imp_y) * UnitsPerCm <= LineThresh
        hitting == AbsLeq(y_at_stumps, LineThresh)
        dec == Decision2d(pitched_in_line, impact_in_line, hitting, y_at_stumps)
        r2 == RSquared2d(pts, i0, i1)
    IN IF n < 3 THEN [status |-> "none"]
       ELSE IF i1 > n - 1 THEN [status |-> "raised", error |-> "IndexError"]
       ELSE [status |-> "ok",
             bounce_i |-> bounce_i, impact_i |-> impact_i,
             fit_lo |-> i0, fit_hi |-> i1,
             weights |-> Weights2d(confs, n, i0, i1),
             pitched_in_line |-> pitched_in_line,
             impact_in_line |-> impact_in_line,
             wickets_hitting |-> hitting,
             y_at_stumps |-> y_at_stumps,
             decision |-> dec[1], reason |-> dec[2],
             likely_out |-> (pitched_in_line /\ impact_in_line /\ hitting
                             /\ dec[1] = "out"),
             prediction_r_squared |-> r2,
             prediction_confidence |-> Confidence2d(r2)]

(***************************************************************************)
(* lbw.py                                                                  *)
(***************************************************************************)
PredictionTailPoints == 15
MinPredictionPoints == 5
FallbackConfidence == 30

\* lbw._in_line_y
in_line_y(y) == AbsLeq(y, LineThresh)

\* lbw._fit_y_over_x on the window lo..hi: the intercept a of the weighted
\* line, or None.  The weights of a call are equal, and a and the sign of
\* denom do not change when they are scaled, so the sums use weight 1.  On
\* this grid denom is an integer, so |denom| < 1e-12 is denom = 0.
fit_y_over_x(pts, lo, hi) ==
    LET n == Len(pts)
        sum_w == SumX(n, lo, hi, 0, 1)
        sum_wx == SumX(n, lo, hi, 1, 1)
        sum_wxx == SumX(n, lo, hi, 2, 1)
        sum_wy == SumXY(pts, lo, hi, 0, 1)
        sum_wxy == SumXY(pts, lo, hi, 1, 1)
        denom == sum_w * sum_wxx - sum_wx * sum_wx
    IN IF hi - lo + 1 < 2 THEN None
       ELSE IF denom = 0 THEN None
       ELSE Some(Frac(sum_wy * sum_wxx - sum_wxy * sum_wx, denom))

DecisionLbw(pitched_in_line, impact_in_line, y_at_stumps) ==
    IF ~pitched_in_line THEN <<"not_out", "Pitched outside leg stump">>
    ELSE IF ~impact_in_line THEN <<"not_out", "Impact outside off stump">>
    ELSE IF AbsLeq(y_at_stumps, HalfWicketWidth) THEN <<"out", "Hitting stumps">>
    ELSE IF AbsLeq(y_at_stumps, HalfWicketWidth + BallRadius)
    THEN <<"umpires_call", "Clipping stumps - Umpire's call">>
    ELSE <<"not_out", "Missing stumps">>

\* lbw.assess_lbw: avg_confidence in hundredths (the mean of a uniform list
\* is its value), and prediction_confidence
\*   min(0.99, avg_confidence * (0.5 + 0.5 * max(0, r_squared)))
\* as a fraction.  _fit_y_over_x divides by ss_tot + 1e-12, so a constant
\* tail has r_squared 1.
AvgConfidence(confs, impact_index) ==
    IF ~IsNone(confs) /\ Len(Val(confs)) >= impact_index + 1 THEN LbwConf ELSE 100

PredictionConfidence(avg, r2) ==
    LET num == avg * (r2[2] + r2[1])
        den == 200 * r2[2]
    IN IF LeqFrac(num, den, 99, 100) THEN <<num, den>> ELSE <<99, 100>>

\* lbw.assess_lbw
assess_lbw(pts, pitch_index, confs) ==
    LET n == Len(pts)
        impact_index == n - 1
        pitch_y == <<PointY(pts, pitch_index), 1>>
        impact_y == <<PointY(pts, impact_index), 1>>
        tail_start == Max(pitch_index + 1, impact_index - PredictionTailPoints + 1)
        tail_len == impact_index - tail_start + 1
        fit == fit_y_over_x(pts, tail_start, impact_index)
        fallback == IsNone(fit) \/ tail_len < MinPredictionPoints
        y_at_stumps == IF fallback THEN impact_y ELSE Val(fit)
        pitched_in_line == in_line_y(pitch_y)
        impact_in_line == in_line_y(impact_y)
        dec == DecisionLbw(pitched_in_line, impact_in_line, y_at_stumps)
        r2 == IF fallback THEN <<0, 1>>
              ELSE FitRSquared(pts, tail_start, impact_index, 1, <<1, 1>>)
    IN IF n = 0 THEN [status |-> "raised", error |-> "ValueError"]
       ELSE IF pitch_index < 0 \/ pitch_index >= n
       THEN [status |-> "raised", error |-> "IndexError"]
       ELSE IF impact_index <= pitch_index
       THEN [status |-> "raised", error |-> "ValueError"]
       ELSE [status |-> "ok",
             bounce_i |-> pitch_index, impact_i |-> impact_index,
             fit_lo |-> tail_start, fit_hi |-> impact_index,
             weights |-> IF ~IsNone(confs) /\ Len(Val(confs)) >= impact_index + 1
                         THEN Some(SubSeq(Val(confs), tail_start + 1, impact_index + 1))
                         ELSE None,
             fallback |-> fallback,
             pitched_in_line |-> pitched_in_line,
             impact_in_line |-> impact_in_line,
             wickets_hitting |-> in_line_y(y_at_stumps),
             y_at_stumps |-> y_at_stumps,
             decision |-> dec[1], reason |-> dec[2],
             prediction_r_squared |-> r2,
             prediction_confidence |->
                 IF fallback THEN <<FallbackConfidence, 100>>
                 ELSE PredictionConfidence(AvgConfidence(confs, impact_index), r2)]

(***************************************************************************)
(* The LBW specification: a trajectory is built point by point, then one   *)
(* engine is called on it once.                                            *)
(***************************************************************************)
ConfArgs(n) == {None} \cup {Some([k \in 1..m |-> LbwConf]) : m \in {n, n + 1}}

LbwAddPoint ==
    /\ lbw_fn = "" /\ Len(lbw_pts) < MaxPts
    /\ \E y \in LbwYs : lbw_pts' = Append(lbw_pts, y)
    /\ UNCHANGED <<lbw_fn, lbw_bounce, lbw_impact, lbw_confs, lbw_out>>
    /\ UNCHANGED notLbw

call_assess_lbw_2d ==
    /\ lbw_fn = "" /\ Len(lbw_pts) <= MaxPts2d
    /\ \E b \in -1..Len(lbw_pts), i \in -1..Len(lbw_pts), cs \in ConfArgs(Len(lbw_pts)) :
          /\ lbw_bounce' = b /\ lbw_impact' = i /\ lbw_confs' = cs
          /\ lbw_out' = assess_lbw_2d(lbw_pts, b, i, cs)
    /\ lbw_fn' = "assess_lbw_2d"
    /\ UNCHANGED lbw_pts
    /\ UNCHANGED notLbw

call_assess_lbw ==
    /\ lbw_fn = ""
    /\ \E b \in -1..Len(lbw_pts), cs \in ConfArgs(Len(lbw_pts)) :
          /\ lbw_bounce' = b /\ lbw_confs' = cs
          /\ lbw_out' = assess_lbw(lbw_pts, b, cs)
    /\ lbw_impact' = Len(lbw_pts) - 1
    /\ lbw_fn' = "assess_lbw"
    /\ UNCHANGED lbw_pts
    /\ UNCHANGED notLbw

LbwInit ==
    /\ lbw_pts = <<>> /\ lbw_fn = "" /\ lbw_bounce = 0 /\ lbw_impact = 0
    /\ lbw_confs = None /\ lbw_out = [status |-> "idle"]
    /\ TrkIdle /\ CalIdle /\ JobIdle /\ EvIdle /\ RunIdle /\ ReqIdle

LbwNext ==
    \/ LbwAddPoint
    \/ call_assess_lbw_2d
    \/ call_assess_lbw

SpecLbw == LbwInit /\ [][LbwNext]_vars

\* A call that breaks the engine's contract: an empty trajectory, a bounce or
\* impact index outside [0, n-1], or an impact index not after the bounce.
ContractViolation ==
    LET n == Len(lbw_pts)
    IN \/ n = 0
       \/ lbw_bounce < 0 \/ lbw_bounce > n - 1
       \/ lbw_impact < 0 \/ lbw_impact > n - 1
       \/ lbw_impact <= lbw_bounce

\* The engine was called within its contract and returned an assessment.
Assessed == lbw_fn # "" /\ ~ContractViolation /\ lbw_out.status = "ok"

\* C3: whenever the bounce point's lateral offset exceeds wicket half-width
\* plus ball radius (0.1503 m), the assessment is not_out with the reason
\* "pitched outside leg stump", whatever the later points are, the impact
\* point's y and the extrapolated y at the stumps included.
C3_PitchedOutsideLegIsNotOut ==
    (Assessed /\ PointY(lbw_pts, lbw_out.bounce_i) * UnitsPerCm > LineThresh)
        => /\ lbw_out.decision = "not_out"
           /\ lbw_out.reason = "Pitched outside leg stump"

\* C4: when the bounce point and the impact point are both in line, the
\* decision is a function of |y_at_stumps| alone: out up to the wicket
\* half-width (0.1143 m), umpires_call up to half-width plus one ball radius
\* (0.1503 m), not_out beyond.
C4_DecisionByStumpOffset ==
    (/\ Assessed
     /\ Abs(PointY(lbw_pts, lbw_out.bounce_i)) * UnitsPerCm <= LineThresh
     /\ Abs(PointY(lbw_pts, lbw_out.impact_i)) * UnitsPerCm <= LineThresh)
        => lbw_out.decision =
              IF AbsLeq(lbw_out.y_at_stumps, HalfWicketWidth) THEN "out"
              ELSE IF AbsLeq(lbw_out.y_at_stumps, HalfWicketWidth + BallRadius)
              THEN "umpires_call"
              ELSE "not_out"

\* C5: every call that breaks the contract fails: the engine returns no
\* assessment for it, degraded or not.
C5_ContractViolationsFail ==
    (lbw_fn # "" /\ ContractViolation) => lbw_out.status # "ok"

(***************************************************************************)
(* Tap calibration.  A homography is represented by the correspondences    *)
(* cv2.findHomography solved; the two 4-corner layouts of the model have   *)
(* their exact integer matrices tabulated, so applying the 4-point         *)
(* homography to a tap is computed.  Pixel and world coordinates are       *)
(* integers below 2^24, which the float32 arrays of compute_homography     *)
(* hold exactly.  A coordinate is a fraction <<n, d>> with d > 0; d = 0    *)
(* is NaN.                                                                 *)
(***************************************************************************)
PitchDims == {<<20, 4>>}

\* A camera square to the pitch, and one looking along it (the far end of
\* the pitch is narrower and the horizon is the image row v = 0).
RectCorners == <<<<10, 10>>, <<10, 90>>, <<90, 90>>, <<90, 10>>>>
TrapCorners == <<<<10, 20>>, <<90, 20>>, <<70, 10>>, <<30, 10>>>>
CornerLists == {RectCorners, TrapCorners, SubSeq(RectCorners, 1, 3)}

\* The taps offered as stump bases: under TrapCorners the first two are the
\* true stump bases, the third is the near left corner (on the striker's
\* crease, like the first) and the last lies on the horizon.
StumpTaps == {<<50, 20>>, <<50, 10>>, <<10, 20>>, <<50, 0>>}
StumpArgs ==
    {None} \cup {Some(<<p>>) : p \in StumpTaps}
           \cup {Some(<<p, q>>) : p \in StumpTaps, q \in StumpTaps}

WorldPoints(pitch_length_m, pitch_width_m) ==
    LET half_w == pitch_width_m \div 2
    IN <<<<0, -half_w>>, <<0, half_w>>,
         <<pitch_length_m, half_w>>, <<pitch_length_m, -half_w>>>>

\* The exact solutions of the two layouts for a 20 x 4 pitch:
\*   RectCorners: x = (5u - 50)/20,    y = (v - 50)/20
\*   TrapCorners: x = (400 - 20v)/v,   y = (u - 50)/v
Matrix(H) ==
    CASE H.src = RectCorners -> <<<<5, 0, -50>>, <<0, 1, -50>>, <<0, 0, 20>>>>
      [] H.src = TrapCorners -> <<<<0, -20, 400>>, <<1, 0, -50>>, <<0, 1, 0>>>>

FindHomography(src_pts, dst_pts) ==
    IF src_pts \in cv_none THEN None
    ELSE Some([src |-> src_pts, dst |-> dst_pts])

Raised(msg) ==
    [status |-> "raised", error |-> "CalibrationError", msg |-> msg,
     H |-> None, notes |-> <<>>, refine_points |-> None]

compute_homography(image_points, world_points) ==
    IF Len(image_points) # Len(world_points)
    THEN Raised("Point count mismatch")
    ELSE IF Len(image_points) < 4
    THEN Raised("Need at least 4 correspondences")
    ELSE LET H == FindHomography(image_points, world_points)
         IN IF IsNone(H)
            THEN Raised("Homography computation failed")
            ELSE [status |-> "ok", error |-> "", msg |-> "", H |-> H,
                  notes |-> <<>>, refine_points |-> None]

NaN == <<0, 0>>
isfinite_always(x) == TRUE
isfinite(x) == x[2] # 0

apply_homography(H, x, y) ==
    LET m == Matrix(H)
        q == [r \in 1..3 |-> m[r][1] * x + m[r][2] * y + m[r][3]]
    IN IF q[3] = 0 THEN <<NaN, NaN>>
       ELSE <<Frac(q[1], q[3]), Frac(q[2], q[3])>>

\* x0 <= x1 for two finite coordinates.
LeqCoord(x0, x1) == x0[1] * x1[2] <= x1[1] * x0[2]

\* The stump bases in the order the caller gave them.
OrderStumpBases_AsGiven(H, p0, p1) == <<p0, p1>>

\* The (striker, bowler) order of the two stump bases: the striker is the
\* one the preliminary homography maps nearer x = 0.
OrderStumpBases(H0, p0, p1) ==
    LET x0 == apply_homography(H0, p0[1], p0[2])[1]
        x1 == apply_homography(H0, p1[1], p1[2])[1]
    IN IF isfinite(x0) /\ isfinite(x1)
       THEN IF LeqCoord(x0, x1) THEN <<p0, p1>> ELSE <<p1, p0>>
       ELSE <<p0, p1>>

compute_taps_homography(corners_px, pitch_length_m, pitch_width_m, stump_bases_px) ==
    LET world_points == WorldPoints(pitch_length_m, pitch_width_m)
        r0 == compute_homography(corners_px, world_points)
    IN IF r0.status = "raised" THEN r0
       ELSE IF ~IsNone(stump_bases_px) /\ Len(Val(stump_bases_px)) = 2
       THEN LET ordered == OrderStumpBases(Val(r0.H), Val(stump_bases_px)[1],
                                           Val(stump_bases_px)[2])
                world_points_refined ==
                    world_points \o <<<<0, 0>>, <<pitch_length_m, 0>>>>
                image_points_refined == corners_px \o ordered
                r == compute_homography(image_points_refined, world_points_refined)
            IN IF r.status = "raised"
               THEN [r EXCEPT !.refine_points = Some(image_points_refined)]
               ELSE [r EXCEPT !.notes = <<"Refined homography using both stump bases">>,
                              !.refine_points = Some(image_points_refined)]
       ELSE r0

\* The point lists a request can hand to cv2.findHomography.
SolveInputs(corners, stumps) ==
    {corners} \cup
    (IF ~IsNone(stumps) /\ Len(Val(stumps)) = 2
     THEN {corners \o Val(stumps), corners \o <<Val(stumps)[2], Val(stumps)[1]>>}
     ELSE {})

call_compute_taps_homography ==
    /\ cal_pc = "ready"
    /\ cal_out' = compute_taps_homography(cal_corners, cal_dims[1], cal_dims[2],
                                          cal_stumps)
    /\ cal_pc' = "done"
    /\ UNCHANGED <<cal_corners, cal_dims, cal_stumps, cv_none, cal_prev>>
    /\ UNCHANGED notCal

\* The client sends the same calibration request again with the two stump
\* bases in the other order.
resubmit_swapped ==
    /\ cal_pc = "done" /\ IsNone(cal_prev)
    /\ ~IsNone(cal_stumps) /\ Len(Val(cal_stumps)) = 2
    /\ cal_prev' = Some(cal_out)
    /\ cal_stumps' = Some(<<Val(cal_stumps)[2], Val(cal_stumps)[1]>>)
    /\ cal_out' = [status |-> "idle"]
    /\ cal_pc' = "ready"
    /\ UNCHANGED <<cal_corners, cal_dims, cv_none>>
    /\ UNCHANGED notCal

CalInit ==
    /\ cal_corners \in CornerLists
    /\ cal_dims \in PitchDims
    /\ cal_stumps \in StumpArgs
    /\ cv_none \in SUBSET SolveInputs(cal_corners, cal_stumps)
    /\ cal_out = [status |-> "idle"] /\ cal_prev = None /\ cal_pc = "ready"
    /\ TrkIdle /\ LbwIdle /\ JobIdle /\ EvIdle /\ RunIdle /\ ReqIdle

CalNext ==
    \/ call_compute_taps_homography
    \/ resubmit_swapped

SpecCal == CalInit /\ [][CalNext]_vars

\* The request supplies two stump bases.
TwoStumpBases == ~IsNone(cal_stumps) /\ Len(Val(cal_stumps)) = 2

\* The 4-corner solve of the request succeeds.
H0 == compute_homography(cal_corners, WorldPoints(cal_dims[1], cal_dims[2]))

\* C6: when two stump bases are supplied and the 6-point refinement solve
\* fails while the 4-corner solve succeeded, calibration succeeds and returns
\* the 4-point homography.
C6_RefinementFailureFallsBack ==
    (/\ cal_pc = "done" /\ TwoStumpBases /\ H0.status = "ok"
     /\ ~IsNone(cal_out.refine_points)
     /\ Val(cal_out.refine_points) \in cv_none)
        => /\ cal_out.status = "ok"
           /\ cal_out.H = H0.H

\* Both orders of one pair of stump bases have been calibrated.
BothOrders == cal_pc = "done" /\ ~IsNone(cal_prev) /\ TwoStumpBases

\* The two calls handed the same correspondence list to the refinement solve
\* and returned the same outcome.
SameRefinement ==
    /\ cal_out.refine_points = Val(cal_prev).refine_points
    /\ cal_out = Val(cal_prev)

\* C7 as stated: for any corners and any two stump bases p, q, calibrating
\* with [p, q] and with [q, p] hands the same ordered (striker, bowler) list
\* to the refinement solve and yields the same refined homography.
C7_AnyOrderSameRefinement == BothOrders => SameRefinement

\* The preliminary homography tells the two stump bases apart: both project
\* to a finite x and the two x differ.
Distinguishable ==
    LET p == Val(cal_stumps)[1]
        q == Val(cal_stumps)[2]
        xp == apply_homography(Val(H0.H), p[1], p[2])[1]
        xq == apply_homography(Val(H0.H), q[1], q[2])[1]
    IN /\ isfinite(xp) /\ isfinite(xq)
       /\ ~(LeqCoord(xp, xq) /\ LeqCoord(xq, xp))

\* C7: for corners whose 4-point homography projects the two stump bases to
\* finite and different x, calibrating with [p, q] and with [q, p] hands the
\* same ordered (striker, bowler) list to the refinement solve and yields the
\* same refined homography.
C7_OrderIndependentWhenDistinguishable ==
    (BothOrders /\ H0.status = "ok" /\ Distinguishable) => SameRefinement

C7_Witness ==
    /\ BothOrders /\ H0.status = "ok" /\ Distinguishable
    /\ cal_out.status = "ok"
    /\ cal_out.refine_points = Some(cal_corners \o <<Val(cal_stumps)[2], Val(cal_stumps)[1]>>)

(***************************************************************************)
(* The job server and the pipeline orchestrator.  A job id is a natural    *)
(* number; uuid.uuid4 is taken to return an id no job directory has.  A    *)
(* worker thread of the executor runs _process_job: it calls run_pipeline  *)
(* with a progress callback that writes the job's status file.  A step of  *)
(* run_pipeline is the code from one progress call to the next.            *)
(***************************************************************************)
MaxJobs == 2
MaxSampledFrames == 21
MaxWorkers == 2

JobIds == 1..MaxJobs

\* One client exercising the decode loop with and without a calibration,
\* or several clients with short clips and no calibration.
Workloads ==
    {[jobs |-> 1, frames |-> 0..MaxSampledFrames, cals |-> {"none", "taps"}],
     [jobs |-> MaxJobs, frames |-> {2}, cals |-> {"none"}]}

Absent == [status |-> "absent", pct |-> 0, stage |-> "", error |-> ""]
StatusFile(status, pct, stage, error) ==
    [status |-> status, pct |-> pct, stage |-> stage, error |-> error]

Used == {j \in JobIds : job_status[j] # Absent}

\* An id some job directory already has.
uuid4_reused(used) == 1

uuid4(used) == CHOOSE j \in JobIds \ used : \A k \in JobIds \ used : j <= k

\* The worker positions inside the try block of _process_job.
Running == {"starting", "decode", "tracking", "calibration", "events", "lbw",
            "finalize", "returned", "result_written", "completing"}

\* job_log.info / error of job j: the logger "pocket_drs.job" is one object
\* for all jobs, and a record goes to every handler attached to it; a
\* handler's formatter fills in job=<the id of the job that attached it>.
Emit(files, handlers, j) ==
    [k \in JobIds |-> IF k \in handlers THEN files[k] \cup {<<j, k>>} ELSE files[k]]

\* (last_pct, last_stage) of the progress callback after the calls in log.
RECURSIVE LastLogged(_)
LastLogged(log) ==
    IF log = <<>> THEN None
    ELSE LET prev == LastLogged(SubSeq(log, 1, Len(log) - 1))
             e == log[Len(log)]
         IN IF IsNone(prev) \/ e[2] # Val(prev)[2] \/ Abs(e[1] - Val(prev)[1]) >= 10
            THEN Some(e) ELSE prev

\* stage != last_stage or last_pct is None or abs(pct - last_pct) >= 10
ShouldLog(log, pct, stage) ==
    LET prev == LastLogged(log)
    IN IsNone(prev) \/ stage # Val(prev)[2] \/ Abs(pct - Val(prev)[1]) >= 10

\* main._process_job.progress: the callback writes the status file.
progress_cb(j, pct, stage) ==
    /\ job_status' = [job_status EXCEPT ![j] = StatusFile("running", pct, stage, "")]
    /\ job_log' = [job_log EXCEPT ![j] = Append(@, <<pct, stage>>)]
    /\ log_files' = IF ShouldLog(job_log[j], pct, stage)
                    THEN Emit(log_files, log_handlers \cup {j}, j)
                    ELSE log_files

\* process_job._progress
progress(j, pct, stage) == progress_cb(j, Max(0, Min(100, pct)), stage)

DecodePct_Unscaled(i, n) == 5 + 25 * i

\* The percentage the decode loop reports after frame i of n.
DecodePct(i, n) == 5 + (25 * i) \div Max(1, n - 1)

\* Whether the decode loop reports after frame i of n.
DecodeReports(i, n) == i # 0 /\ i % Max(1, n \div 10) = 0

create_job ==
    /\ Cardinality(Used) < workload.jobs
    /\ \E n \in workload.frames, cal \in workload.cals, uploaded \in BOOLEAN,
          again \in {0} \cup {k \in JobIds : job_status[k].status = "failed"} :
          LET job_id == uuid4(Used)
          IN /\ job_status' = [job_status EXCEPT
                                  ![job_id] = StatusFile("queued", 0, "queued", "")]
             /\ job_req' = [job_req EXCEPT
                                  ![job_id] = [n |-> n, cal |-> cal, resubmit_of |-> again]]
             /\ job_pc' = [job_pc EXCEPT
                                  ![job_id] = IF uploaded THEN "queued" ELSE "rejected"]
             /\ exec_queue' = IF uploaded THEN Append(exec_queue, job_id) ELSE exec_queue
    /\ UNCHANGED <<workload, job_result, job_i, job_log, log_handlers, log_files>>
    /\ UNCHANGED notJob

\* A free worker thread takes the next job and enters _process_job: the
\* log context attaches the job's handlers, then the first progress call.
process_job_start ==
    /\ exec_queue # <<>>
    /\ Cardinality({j \in JobIds : job_pc[j] \in Running}) < MaxWorkers
    /\ LET j == Head(exec_queue)
       IN /\ progress_cb(j, 1, "starting")
          /\ job_pc' = [job_pc EXCEPT ![j] = "starting"]
          /\ log_handlers' = log_handlers \cup {j}
    /\ exec_queue' = Tail(exec_queue)
    /\ UNCHANGED <<workload, job_result, job_req, job_i>>
    /\ UNCHANGED notJob

\* A step of run_pipeline that ends in the progress call (pct, stage).
PipelineStep(j, from, to, pct, stage) ==
    /\ job_pc[j] = from
    /\ progress(j, pct, stage)
    /\ job_pc' = [job_pc EXCEPT ![j] = to]
    /\ UNCHANGED <<workload, job_result, job_req, job_i, exec_queue, log_handlers>>
    /\ UNCHANGED notJob

run_pipeline_enter(j) ==
    /\ job_pc[j] = "starting"
    /\ PipelineStep(j, "starting", "decode", 5, "decode")

run_pipeline_decode_frame(j) ==
    /\ job_pc[j] = "decode" /\ job_i[j] < job_req[j].n
    /\ IF DecodeReports(job_i[j], job_req[j].n)
       THEN progress(j, DecodePct(job_i[j], job_req[j].n), "decode")
       ELSE UNCHANGED <<job_status, job_log, log_files>>
    /\ job_i' = [job_i EXCEPT ![j] = @ + 1]
    /\ UNCHANGED <<workload, job_result, job_req, job_pc, exec_queue, log_handlers>>
    /\ UNCHANGED notJob

run_pipeline_tracking(j) ==
    /\ job_i[j] = job_req[j].n
    /\ PipelineStep(j, "decode", "tracking", 35, "tracking")

\* _track_points has returned a non-empty track.
run_pipeline_calibration(j) ==
    /\ job_req[j].n >= 1
    /\ PipelineStep(j, "tracking", "calibration", 60, "calibration")

run_pipeline_events(j) ==
    /\ job_pc[j] = "calibration"
    /\ PipelineStep(j, "calibration", "events", 75, "events")

run_pipeline_lbw(j) ==
    /\ job_req[j].cal = "taps"
    /\ PipelineStep(j, "events", "lbw", 85, "lbw")

run_pipeline_finalize(j) ==
    \/ /\ job_req[j].cal # "taps"
       /\ PipelineStep(j, "events", "finalize", 98, "finalize")
    \/ PipelineStep(j, "lbw", "finalize", 98, "finalize")

run_pipeline_return(j) ==
    /\ job_pc[j] = "finalize"
    /\ PipelineStep(j, "finalize", "returned", 100, "done")

\* The worker goes on to the status write without a result file.
process_job_write_result_skipped(j) ==
    /\ job_pc[j] = "returned"
    /\ job_pc' = [job_pc EXCEPT ![j] = "result_written"]
    /\ UNCHANGED <<workload, job_status, job_result, job_req, job_i, job_log,
                   exec_queue, log_handlers, log_files>>
    /\ UNCHANGED notJob

\* run_pipeline has returned: _store.write_result replaces the result file.
process_job_write_result(j) ==
    /\ job_pc[j] = "returned"
    /\ job_result' = [job_result EXCEPT ![j] = TRUE]
    /\ job_pc' = [job_pc EXCEPT ![j] = "result_written"]
    /\ UNCHANGED <<workload, job_status, job_req, job_i, job_log, exec_queue,
                   log_handlers, log_files>>
    /\ UNCHANGED notJob

\* _store.write_status(succeeded), the next statement.
process_job_succeed(j) ==
    /\ job_pc[j] = "result_written"
    /\ job_status' = [job_status EXCEPT
                         ![j] = StatusFile("succeeded", 100, "succeeded", "")]
    /\ job_pc' = [job_pc EXCEPT ![j] = "completing"]
    /\ UNCHANGED <<workload, job_result, job_req, job_i, job_log, exec_queue,
                   log_handlers, log_files>>
    /\ UNCHANGED notJob

\* The rest of the try block (the completion record, the optional save to
\* Firestore inside its own try / except) and the end of the log context.
process_job_complete(j) ==
    /\ job_pc[j] = "completing"
    /\ log_files' = Emit(log_files, log_handlers, j)
    /\ log_handlers' = log_handlers \ {j}
    /\ job_pc' = [job_pc EXCEPT ![j] = "succeeded"]
    /\ UNCHANGED <<workload, job_status, job_result, job_req, job_i, job_log,
                   exec_queue>>
    /\ UNCHANGED notJob

\* Every statement of the try block raising.
Raises_Anywhere(pc, req) == {"OSError"}

\* The exceptions the code following a progress call can raise.  The
\* statements after the succeeded status raise nothing: logging handlers
\* swallow their errors and the Firestore save has its own try / except.
Raises(pc, req) ==
    CASE pc = "starting" -> {"KeyError", "ValueError"}
      [] pc = "decode" -> {"VideoDecodeError", "ValueError"}
      [] pc = "tracking" -> {"ValueError", "RuntimeError"}
      [] pc = "calibration" ->
            IF req.cal = "taps" THEN {"ValueError", "CalibrationError"} ELSE {}
      [] pc = "events" -> {"ValueError"}
      [] pc = "lbw" -> {"IndexError"}
      [] pc = "finalize" -> {}
      [] pc = "returned" -> {"OSError"}
      [] pc = "result_written" -> {"OSError"}
      [] pc = "completing" -> {}
      [] OTHER -> {}

map_exception_generic(exc) == "INTERNAL_ERROR"

map_exception_to_api_error(exc) ==
    CASE exc = "VideoDecodeError" -> "VIDEO_DECODE_FAILED"
      [] exc = "CalibrationError" -> "CALIBRATION_DEGENERATE"
      [] exc = "ValueError" -> "INVALID_REQUEST"
      [] OTHER -> "INTERNAL_ERROR"

\* The except branch of _process_job: the error record, the failed status,
\* and the end of the log context.
process_job_fail(j) ==
    /\ job_pc[j] \in Running
    /\ \E exc \in Raises(job_pc[j], job_req[j]) :
          job_status' = [job_status EXCEPT
              ![j] = StatusFile("failed", 100, "failed", map_exception_to_api_error(exc))]
    /\ job_pc' = [job_pc EXCEPT ![j] = "failed"]
    /\ log_files' = Emit(log_files, log_handlers, j)
    /\ log_handlers' = log_handlers \ {j}
    /\ UNCHANGED <<workload, job_result, job_req, job_i, job_log, exec_queue>>
    /\ UNCHANGED notJob

JobInitWith(workloads) ==
    /\ workload \in workloads
    /\ job_status = [j \in JobIds |-> Absent]
    /\ job_result = [j \in JobIds |-> FALSE]
    /\ job_req = [j \in JobIds |-> [n |-> 0, cal |-> "none", resubmit_of |-> 0]]
    /\ job_pc = [j \in JobIds |-> "absent"]
    /\ job_i = [j \in JobIds |-> 0]
    /\ job_log = [j \in JobIds |-> <<>>]
    /\ exec_queue = <<>>
    /\ log_handlers = {}
    /\ log_files = [j \in JobIds |-> {}]
    /\ TrkIdle /\ LbwIdle /\ CalIdle /\ EvIdle /\ RunIdle /\ ReqIdle

JobInit == JobInitWith(Workloads)

JobNext ==
    \/ create_job
    \/ process_job_start
    \/ \E j \in JobIds :
          \/ run_pipeline_enter(j)
          \/ run_pipeline_decode_frame(j)
          \/ run_pipeline_tracking(j)
          \/ run_pipeline_calibration(j)
          \/ run_pipeline_events(j)
          \/ run_pipeline_lbw(j)
          \/ run_pipeline_finalize(j)
          \/ run_pipeline_return(j)
          \/ process_job_write_result(j)
          \/ process_job_succeed(j)
          \/ process_job_complete(j)
          \/ process_job_fail(j)

SpecJob == JobInit /\ [][JobNext]_vars

(***************************************************************************)
(* The status and result endpoints, polled by one client while the         *)
(* workers run.  Every JobStore read and write holds the store's lock and  *)
(* files are replaced atomically, so each is one step.                     *)
(***************************************************************************)
Response(endpoint, j, status, result) ==
    [pc |-> "responded", endpoint |-> endpoint, job |-> j, status |-> status,
     result |-> result]

\* JobStore.read_result: the result file's content (here the id of the job
\* it belongs to); reading a missing file raises.
read_result(j) == IF job_result[j] THEN Some(j) ELSE Some("FileNotFoundError")

\* GET /v1/jobs/{job_id}
get_job_status ==
    /\ rq.pc \in {"idle", "responded"}
    /\ \E j \in JobIds :
          rq' = IF job_status[j] = Absent THEN Response("status", j, "404", None)
                ELSE Response("status", j, job_status[j].status, None)
    /\ UNCHANGED notReq

\* GET /v1/jobs/{job_id}/result, up to _store.read_status.
get_job_result_read_status ==
    /\ rq.pc \in {"idle", "responded"}
    /\ \E j \in JobIds :
          rq' = IF job_status[j] = Absent THEN Response("result", j, "404", None)
                ELSE [pc |-> "status_read", endpoint |-> "result", job |-> j,
                      status |-> job_status[j].status, result |-> None]
    /\ UNCHANGED notReq

\* The rest of get_job_result: the result file is read only when the
\* status read was succeeded.
get_job_result_respond ==
    /\ rq.pc = "status_read"
    /\ rq' = IF rq.status # "succeeded"
             THEN Response("result", rq.job, rq.status, None)
             ELSE Response("result", rq.job, rq.status, read_result(rq.job))
    /\ UNCHANGED notReq

\* The clients of the polling model: one calibrated or uncalibrated job,
\* or one job on each worker.
ServeWorkloads ==
    {[jobs |-> 1, frames |-> {2}, cals |-> {"none", "taps"}],
     [jobs |-> MaxWorkers, frames |-> {2}, cals |-> {"none"}]}

ServeInit == JobInitWith(ServeWorkloads)

ServeNext ==
    \/ JobNext
    \/ get_job_status
    \/ get_job_result_read_status
    \/ get_job_result_respond

SpecServe == ServeInit /\ [][ServeNext]_vars

StageRank(stage) ==
    CASE stage = "decode" -> 1
      [] stage = "tracking" -> 2
      [] stage = "calibration" -> 3
      [] stage = "events" -> 4
      [] stage = "lbw" -> 5
      [] stage = "finalize" -> 6
      [] OTHER -> 0

PipelineStages == {"decode", "tracking", "calibration", "events", "lbw", "finalize"}

\* C9: during one job the progress callbacks have a non-decreasing
\* percentage, every percentage is in [0, 100], and the stages decode,
\* tracking, calibration, events, lbw, finalize appear in that order: a later
\* stage is never followed by an earlier one.
C9_ProgressMonotone ==
    \A j \in DOMAIN job_log :
        /\ \A k \in 1..Len(job_log[j]) : job_log[j][k][1] \in 0..100
        /\ \A k \in 1..Len(job_log[j]) : \A m \in k..Len(job_log[j]) :
              /\ job_log[j][k][1] <= job_log[j][m][1]
              /\ (job_log[j][k][2] \in PipelineStages /\ job_log[j][m][2] \in PipelineStages)
                    => StageRank(job_log[j][k][2]) <= StageRank(job_log[j][m][2])

\* A calibrated job of at least 20 frames has run to the end: the decode loop
\* reported more than once and every stage was reported.
C9_Witness ==
    \E j \in DOMAIN job_log :
        /\ job_pc[j] = "returned" /\ job_req[j].n >= 20 /\ job_req[j].cal = "taps"
        /\ \A st \in PipelineStages :
              \E k \in 1..Len(job_log[j]) : job_log[j][k][2] = st
        /\ Cardinality({k \in 1..Len(job_log[j]) : job_log[j][k][2] = "decode"}) >= 3
        /\ job_log[j][Len(job_log[j])] = <<100, "done">>

\* C10: once a job's status is failed it stays failed: no step writes its
\* status file, runs its pipeline or queues it again, and a job created
\* afterwards, a resubmission included, gets an id no job has.
C10_FailedIsTerminal ==
    [][/\ \A j \in DOMAIN job_status :
             job_status[j].status = "failed" =>
                /\ job_status'[j] = job_status[j]
                /\ job_pc'[j] = job_pc[j]
                /\ job_log'[j] = job_log[j]
                /\ job_result'[j] = job_result[j]
                /\ \A k \in 1..Len(exec_queue') : exec_queue'[k] # j
       /\ \A j \in DOMAIN job_status :
             job_status[j] # Absent =>
                /\ job_status'[j] # Absent
                /\ job_req'[j] = job_req[j]]_vars

\* A failed job was resubmitted: the new job has another id, ran its own
\* pipeline and succeeded, and the failed job is still failed.
C10_Witness ==
    \E j \in DOMAIN job_status : \E k \in DOMAIN job_status :
        /\ j # k /\ job_req[k].resubmit_of = j
        /\ job_status[j].status = "failed"
        /\ job_status[k].status = "succeeded"

(***************************************************************************)
(* events.py: the bounce and impact heuristics.  Confidences are in        *)
(* hundredths.                                                             *)
(***************************************************************************)
MaxEvLen == 6
EvYs == {0, 1, 2}

EventEstimate(index, confidence) == [index |-> index, confidence |-> confidence]

\* dy = [y_px[i] - y_px[i - 1] for i in range(1, n)]; Python's dy[i] is
\* FirstDiff(y)[i + 1].
FirstDiff(y) == [k \in 1..(Len(y) - 1) |-> y[k + 1] - y[k]]

estimate_bounce_index(y_px) ==
    LET n == Len(y_px)
        dy == FirstDiff(y_px)
        \* for i in range(2, len(dy) - 1): if dy[i - 1] > 0 and dy[i] < 0
        hits == {i \in 2..(Len(dy) - 2) : dy[i] > 0 /\ dy[i + 1] < 0}
    IN IF n < 5 THEN EventEstimate(Max(0, n - 1), 10)
       ELSE IF hits # {}
       THEN EventEstimate(CHOOSE i \in hits : \A j \in hits : i <= j, 60)
       ELSE EventEstimate(Max(1, n \div 3), 20)

estimate_impact_index_past_end(n_points) == EventEstimate(n_points, 50)

estimate_impact_index(n_points) ==
    IF n_points <= 0 THEN EventEstimate(0, 0)
    ELSE EventEstimate(n_points - 1, 50)

call_estimate_bounce_index ==
    /\ IsNone(ev_bounce)
    /\ ev_bounce' = Some(estimate_bounce_index(ev_y))
    /\ UNCHANGED <<ev_y, ev_impact>>
    /\ UNCHANGED notEv

call_estimate_impact_index ==
    /\ IsNone(ev_impact)
    /\ ev_impact' = Some(estimate_impact_index(Len(ev_y)))
    /\ UNCHANGED <<ev_y, ev_bounce>>
    /\ UNCHANGED notEv

EvInit ==
    /\ \E n \in 0..MaxEvLen : ev_y \in [1..n -> EvYs]
    /\ ev_bounce = None
    /\ ev_impact = None
    /\ TrkIdle /\ LbwIdle /\ CalIdle /\ JobIdle /\ RunIdle /\ ReqIdle

EvNext ==
    \/ call_estimate_bounce_index
    \/ call_estimate_impact_index

SpecEvents == EvInit /\ [][EvNext]_vars

\* The positive-to-negative transitions of the whole first-difference
\* sequence, from index 2 on (indices as in the code: transition i has
\* dy[i - 1] > 0 and dy[i] < 0, for every i up to the last difference).
AllTransitions(y) ==
    {i \in 2..(Len(y) - 2) : y[i + 1] - y[i] > 0 /\ y[i + 2] - y[i + 1] < 0}

\* C15: the bounce heuristic returns (last index, 0.1) for fewer than 5
\* points; otherwise (i, 0.6) for the first index i >= 2 at which the first
\* difference turns from positive to negative, every transition of the
\* sequence being considered; and (floor(n / 3), 0.2) when there is none.
C15_BounceHeuristic ==
    ~IsNone(ev_bounce) =>
        LET n == Len(ev_y)
            T == AllTransitions(ev_y)
        IN Val(ev_bounce) =
              IF n < 5 THEN EventEstimate(Max(0, n - 1), 10)
              ELSE IF T # {}
              THEN EventEstimate(CHOOSE i \in T : \A j \in T : i <= j, 60)
              ELSE EventEstimate(n \div 3, 20)

Estimated == ~IsNone(ev_bounce) /\ ~IsNone(ev_impact)

IndexInTrack(e) == e.index >= 0 /\ e.index <= Max(0, Len(ev_y) - 1)

\* C16 as stated: for every track length n >= 0 both estimators return an
\* index in [0, max(0, n - 1)] with a confidence greater than 0.
C16_EstimatesInRangeAndPositive ==
    Estimated =>
        \A e \in {Val(ev_bounce), Val(ev_impact)} :
            IndexInTrack(e) /\ e.confidence > 0

\* C16 amended: for every track length n >= 0 both estimators return an
\* index in [0, max(0, n - 1)] with a confidence in [0, 1]; the confidence
\* is greater than 0 for every n >= 1, and the bounce confidence also for
\* n = 0, where the impact confidence is 0.
C16_EstimatesInRange ==
    Estimated =>
        /\ \A e \in {Val(ev_bounce), Val(ev_impact)} :
              IndexInTrack(e) /\ e.confidence \in 0..100
        /\ Val(ev_bounce).confidence > 0
        /\ Val(ev_impact).confidence > 0 <=> Len(ev_y) >= 1

C16_Witness == Estimated /\ ev_y = <<>>

(***************************************************************************)
(* process_job.run_pipeline in detail: one call with its request, the      *)
(* frames it decodes, the track _track_points returns, the calibration,    *)
(* the plane mapping, the events and the LBW payload, followed by the      *)
(* status main._process_job writes.  The tracker state is the tracker      *)
(* section's; the request carries no stump bases.                          *)
(***************************************************************************)
\* meta.duration_ms of the uploaded clip.
VideoDurationMs == 100

\* segment = <<start_ms, end_ms>>.
Segments == {<<0, 0>>, <<120, 200>>, <<0, 20>>, <<0, 40>>, <<0, 200>>}
TrackingModes == {"seeded", "auto", "manual"}

CalNone == [mode |-> "none", dims |-> None, corners |-> <<>>]
Calibrations ==
    {CalNone} \cup
    {[mode |-> "taps", dims |-> d, corners |-> c] :
        d \in {None} \cup {Some(x) : x \in PitchDims},
        c \in {<<>>} \cup CornerLists}

BounceOverrides == {None, Some(0), Some(7)}
ImpactOverrides == {None, Some(-2), Some(1), Some(7)}

\* tracking.sample_fps: the default, one giving 62.5 ms and one above 1000.
SampleRates == {30, 16, 2000}

\* tracking.max_frames of a request long enough for an LBW assessment of a
\* plane that lost a point.
MaxPlaneFrames == 4

DefaultRequest ==
    [segment |-> <<0, 200>>, sample_fps |-> 30, max_frames |-> MaxTrackFrames,
     mode |-> "seeded",
     seed |-> Some(SeedPx), calibration |-> CalNone, bounce_index |-> None,
     impact_index |-> None]

\* The requests of the model: every segment, every tracking mode with and
\* without a seed, every calibration with every pair of overrides, and a
\* longer run under the camera that looks along the pitch.
Requests ==
    {[DefaultRequest EXCEPT !.segment = g] : g \in Segments}
    \cup {[DefaultRequest EXCEPT !.sample_fps = f, !.mode = m] :
             f \in SampleRates, m \in {"seeded", "auto"}}
    \cup {[DefaultRequest EXCEPT !.mode = m, !.seed = e] :
             m \in TrackingModes, e \in {None, Some(SeedPx)}}
    \cup {[DefaultRequest EXCEPT !.calibration = c, !.bounce_index = b,
                                 !.impact_index = i] :
             c \in Calibrations, b \in BounceOverrides, i \in ImpactOverrides}
    \cup {[DefaultRequest EXCEPT
              !.max_frames = MaxPlaneFrames,
              !.calibration = [mode |-> "taps", dims |-> Some(d),
                               corners |-> TrapCorners],
              !.bounce_index = b] : d \in PitchDims, b \in BounceOverrides}

\* The detector outputs of the frames of a run: nothing, the ball in the
\* image, the ball on the image row v = 0.
RunDetLists ==
    {<<>>, <<[x |-> 100, y |-> 120, confidence |-> 90]>>,
           <<[x |-> 100, y |-> 0, confidence |-> 50]>>}

\* dt_ms = max(1, int(round(1000 / max(1, sample_fps)))); Python rounds a
\* half to the even neighbour.
SampleDt(sample_fps) ==
    LET f == Max(1, sample_fps)
        q == 1000 \div f
        r == 1000 % f
        rounded == IF 2 * r < f THEN q
                   ELSE IF 2 * r > f THEN q + 1
                   ELSE IF q % 2 = 0 THEN q ELSE q + 1
    IN Max(1, rounded)

\* The sampling loop: t = start_ms; while t <= end_ms and len < max_frames.
SampleTimes(start_ms, end_ms, dt_ms, max_frames) ==
    [k \in 1..Min(max_frames, (end_ms - start_ms) \div dt_ms + 1) |->
        start_ms + (k - 1) * dt_ms]

\* The except branch of the decode loop with a frame to repeat.
RepeatLast_Skipped(frames) == frames
RepeatLast(frames) == Append(frames, frames[Len(frames)])

\* `not track`
NoPoints_Ignored(trk) == FALSE
NoPoints(trk) == trk = <<>>

\* The plane mapping loop: the finite images of the track points, in order.
RECURSIVE MapTrack(_, _)
MapTrack(H, trk) ==
    IF trk = <<>> THEN <<>>
    ELSE LET q == apply_homography(H, trk[1].x_px, trk[1].y_px)
         IN IF ~(isfinite(q[1]) /\ isfinite(q[2])) THEN MapTrack(H, Tail(trk))
            ELSE <<[t_ms |-> trk[1].t_ms, x_m |-> q[1], y_m |-> q[2]]>>
                 \o MapTrack(H, Tail(trk))

\* run_pipeline._clamp_index
clamp_index_unclamped(i, n) == i
clamp_index(i, n) == IF n <= 0 THEN 0 ELSE Max(0, Min(n - 1, i))

\* What _assess_lbw_2d does with n plane points and the two indices: it
\* returns None, fails on a point lookup, or returns an assessment of the
\* points it read.  The fit itself cannot raise.
Lbw2dIndexing(n, bounce_index, impact_index, confs) ==
    LET bounce_i == ClampIndex(bounce_index, n)
        impact_c == ClampIndex(impact_index, n)
        impact_i == IF impact_c <= 0 THEN n - 1 ELSE impact_c
        i0 == Max(0, Min(bounce_i, impact_i))
        i1 == Max(i0 + 1, impact_i)
    IN IF n < 3 THEN [status |-> "none"]
       ELSE IF i1 > n - 1 THEN [status |-> "raised", error |-> "IndexError"]
       ELSE [status |-> "ok", bounce_i |-> bounce_i, impact_i |-> impact_i,
             fit_lo |-> i0, fit_hi |-> i1,
             weights |-> Weights2d(confs, n, i0, i1)]

\* An exception leaves run_pipeline.
Raise(exc) ==
    /\ run_out' = [run_out EXCEPT !.exc = exc, !.at = run_pc]
    /\ run_pc' = "raised"

\* Entry, VideoReader(...), the segment checks and the sampling loop.
pipeline_open ==
    /\ run_pc = "open"
    /\ \E opened \in BOOLEAN :
          LET start_ms == run_req.segment[1]
              end_ms == run_req.segment[2]
          IN IF ~opened
             THEN Raise("VideoDecodeError") /\ UNCHANGED run_times
             ELSE IF start_ms < 0 \/ end_ms <= start_ms
             THEN Raise("ValueError") /\ UNCHANGED run_times
             ELSE IF VideoDurationMs # 0 /\ start_ms >= VideoDurationMs
             THEN Raise("ValueError") /\ UNCHANGED run_times
             ELSE /\ run_times' = SampleTimes(start_ms, end_ms,
                                              SampleDt(run_req.sample_fps),
                                              run_req.max_frames)
                  /\ run_pc' = "decode"
                  /\ UNCHANGED run_out
    /\ UNCHANGED <<run_req, run_frames, run_warnings, run_res>>
    /\ UNCHANGED <<trkVars, notRun>>

\* One iteration of the decode loop.
pipeline_decode_frame ==
    /\ run_pc = "decode" /\ Len(run_frames) < Len(run_times)
    /\ \E decoded \in BOOLEAN :
          LET i == Len(run_frames) + 1
          IN IF decoded
             THEN /\ run_frames' = Append(run_frames, i)
                  /\ UNCHANGED <<run_warnings, run_pc, run_out>>
             ELSE /\ run_warnings' = Append(run_warnings, i)
                  /\ IF run_frames # <<>>
                     THEN /\ run_frames' = RepeatLast(run_frames)
                          /\ UNCHANGED <<run_pc, run_out>>
                     ELSE Raise("VideoDecodeError") /\ UNCHANGED run_frames
    /\ UNCHANGED <<run_req, run_times, run_res>>
    /\ UNCHANGED <<trkVars, notRun>>

\* After the decode loop: the tracking mode check and the call of
\* _track_points.
pipeline_track ==
    /\ run_pc = "decode" /\ Len(run_frames) = Len(run_times)
    /\ IF run_req.mode \notin {"auto", "seeded"}
       THEN Raise("ValueError") /\ UNCHANGED trkVars
       ELSE /\ tracker' = "track_points"
            /\ mode' = run_req.mode
            /\ seed_xy' = run_req.seed
            /\ frames_n' = Len(run_frames)
            /\ times_ms' = run_times
            /\ trk_pc' = "start"
            /\ run_pc' = "tracking"
            /\ UNCHANGED <<cands, trk_i, track, last_xy, prev_xy, kf, last_meas,
                           outcome, run_out>>
    /\ UNCHANGED <<run_req, run_times, run_frames, run_warnings, run_res>>
    /\ UNCHANGED notRun

\* One iteration of _track_points' frame loop inside the run.
pipeline_track_frame ==
    /\ run_pc = "tracking" /\ trk_pc = "loop" /\ trk_i < frames_n
    /\ \E ds \in RunDetLists : track_points_iter(ds)
    /\ UNCHANGED notTrk
    /\ UNCHANGED <<tracker, mode, seed_xy, frames_n, times_ms, cands, kf,
                   last_meas, trk_pc>>

\* _track_points has ended: its exception propagates, an empty track is an
\* error, else the track payload is built.
pipeline_tracked ==
    /\ run_pc = "tracking" /\ trk_pc \in {"done", "raised"}
    /\ IF trk_pc = "raised" THEN Raise("ValueError") /\ UNCHANGED run_res
       ELSE IF NoPoints(track) THEN Raise("RuntimeError") /\ UNCHANGED run_res
       ELSE /\ run_res' = [run_res EXCEPT !.track = track]
            /\ run_pc' = "calibration"
            /\ UNCHANGED run_out
    /\ UNCHANGED <<run_req, run_times, run_frames, run_warnings>>
    /\ UNCHANGED <<trkVars, notRun>>

\* The calibration block and the plane mapping.
pipeline_calibrate ==
    /\ run_pc = "calibration"
    /\ LET cal == run_req.calibration
           payload(H, notes) == [mode |-> cal.mode, homography |-> H, notes |-> notes]
       IN IF cal.mode # "taps"
          THEN /\ run_res' = [run_res EXCEPT !.calibration = payload(None, <<>>)]
               /\ run_pc' = "events"
               /\ UNCHANGED run_out
          ELSE IF IsNone(cal.dims) \/ cal.corners = <<>>
          THEN Raise("ValueError") /\ UNCHANGED run_res
          ELSE LET r == compute_taps_homography(cal.corners, Val(cal.dims)[1],
                                                Val(cal.dims)[2], None)
               IN IF r.status = "raised"
                  THEN Raise(r.error) /\ UNCHANGED run_res
                  ELSE /\ run_res' =
                            [run_res EXCEPT
                                !.calibration = payload(r.H, r.notes),
                                !.pitch_plane = Some(MapTrack(Val(r.H), track))]
                       /\ run_pc' = "events"
                       /\ UNCHANGED run_out
    /\ UNCHANGED <<run_req, run_times, run_frames, run_warnings>>
    /\ UNCHANGED <<trkVars, notRun>>

\* The events block: heuristics, overrides, clamping.
pipeline_events ==
    /\ run_pc = "events"
    /\ LET n == Len(track)
           bounce_est ==
               IF IsNone(run_req.bounce_index)
               THEN estimate_bounce_index([k \in 1..n |-> track[k].y_px])
               ELSE EventEstimate(Val(run_req.bounce_index), 100)
           impact_est ==
               IF IsNone(run_req.impact_index) THEN estimate_impact_index(n)
               ELSE EventEstimate(Val(run_req.impact_index), 100)
       IN run_res' =
            [run_res EXCEPT !.events =
                Some([bounce |-> EventEstimate(clamp_index(bounce_est.index, n),
                                               bounce_est.confidence),
                      impact |-> EventEstimate(clamp_index(impact_est.index, n),
                                               impact_est.confidence)])]
    /\ run_pc' = "lbw"
    /\ UNCHANGED <<run_req, run_times, run_frames, run_warnings, run_out>>
    /\ UNCHANGED <<trkVars, notRun>>

\* The LBW block: only when there is a pitch-plane payload.
pipeline_lbw ==
    /\ run_pc = "lbw"
    /\ IF IsNone(run_res.pitch_plane)
       THEN run_pc' = "finalize" /\ UNCHANGED <<run_res, run_out>>
       ELSE LET ev == Val(run_res.events)
                point_confidences == [k \in 1..Len(track) |-> track[k].confidence]
                a == Lbw2dIndexing(Len(Val(run_res.pitch_plane)),
                                   ev.bounce.index, ev.impact.index,
                                   Some(point_confidences))
            IN IF a.status = "raised" THEN Raise(a.error) /\ UNCHANGED run_res
               ELSE /\ run_res' = [run_res EXCEPT !.lbw =
                                     IF a.status = "none" THEN None ELSE Some(a)]
                    /\ run_pc' = "finalize"
                    /\ UNCHANGED run_out
    /\ UNCHANGED <<run_req, run_times, run_frames, run_warnings>>
    /\ UNCHANGED <<trkVars, notRun>>

\* The result dict is assembled and returned.
pipeline_return ==
    /\ run_pc = "finalize"
    /\ run_pc' = "returned"
    /\ UNCHANGED <<run_req, run_times, run_frames, run_warnings, run_res, run_out>>
    /\ UNCHANGED <<trkVars, notRun>>

\* _process_job after run_pipeline returned: result and succeeded status.
process_job_returned ==
    /\ run_pc = "returned"
    /\ run_out' = [run_out EXCEPT !.status = "succeeded"]
    /\ run_pc' = "written"
    /\ UNCHANGED <<run_req, run_times, run_frames, run_warnings, run_res>>
    /\ UNCHANGED <<trkVars, notRun>>

\* _process_job's except branch: failed status with the mapped error.
process_job_except ==
    /\ run_pc = "raised"
    /\ run_out' = [run_out EXCEPT !.status = "failed",
                                  !.code = map_exception_to_api_error(run_out.exc)]
    /\ run_pc' = "written"
    /\ UNCHANGED <<run_req, run_times, run_frames, run_warnings, run_res>>
    /\ UNCHANGED <<trkVars, notRun>>

RunInit ==
    /\ run_req \in Requests
    /\ run_pc = "open"
    /\ run_times = <<>> /\ run_frames = <<>> /\ run_warnings = <<>>
    /\ run_res = [track |-> <<>>, calibration |-> None, pitch_plane |-> None,
                  events |-> None, lbw |-> None]
    /\ run_out = [status |-> "running", exc |-> "", at |-> "", code |-> ""]
    /\ TrkIdle /\ LbwIdle /\ JobIdle /\ EvIdle /\ ReqIdle
    /\ cal_corners = <<>> /\ cal_dims = <<0, 0>> /\ cal_stumps = None
    /\ cal_out = [status |-> "idle"] /\ cal_prev = None /\ cal_pc = "idle"
    \* the corner lists on which cv2.findHomography gives no solution
    /\ cv_none \in SUBSET {c \in {run_req.calibration.corners} : Len(c) = 4}

RunNext ==
    \/ pipeline_open
    \/ pipeline_decode_frame
    \/ pipeline_track
    \/ track_points_enter
    \/ pipeline_track_frame
    \/ track_points_return
    \/ pipeline_tracked
    \/ pipeline_calibrate
    \/ pipeline_events
    \/ pipeline_lbw
    \/ pipeline_return
    \/ process_job_returned
    \/ process_job_except

SpecRun == RunInit /\ [][RunNext]_vars

\* The samples whose decode failed, and the states after run_pipeline got
\* past the decode loop.
Warned == {run_warnings[j] : j \in 1..Len(run_warnings)}
PastDecode ==
    \/ run_pc \in {"tracking", "calibration", "events", "lbw", "finalize", "returned"}
    \/ run_out.status = "succeeded"
    \/ run_out.at \in {"tracking", "calibration", "lbw"}

\* C11: a decode failure after at least one decoded frame stores the last
\* good frame again and records exactly one warning, so past the decode
\* loop, and in every successful run, there are as many frames as
\* timestamps; a failure of the first decode fails the job with a decode
\* error.
C11_DecodeFailureRepeatsLastFrame ==
    /\ \A k \in 1..Len(run_frames) :
          IF k \in Warned THEN k > 1 /\ run_frames[k] = run_frames[k - 1]
          ELSE run_frames[k] = k
    /\ \A j \in 1..Len(run_warnings) : \A l \in 1..Len(run_warnings) :
          run_warnings[j] = run_warnings[l] => j = l
    /\ PastDecode => Len(run_frames) = Len(run_times)
    /\ 1 \in Warned =>
          /\ run_pc \in {"raised", "written"}
          /\ run_out.exc = "VideoDecodeError"
          /\ run_pc = "written" =>
                run_out.status = "failed" /\ run_out.code = "VIDEO_DECODE_FAILED"

C11_Witness ==
    /\ run_out.status = "succeeded"
    /\ Warned # {}
    /\ Len(run_frames) = MaxTrackFrames

\* The request is one of the invalid requests of the claim.
InvalidRequest ==
    LET g == run_req.segment
        cal == run_req.calibration
    IN \/ g[2] <= g[1]
       \/ g[1] >= VideoDurationMs
       \/ run_req.mode = "seeded" /\ IsNone(run_req.seed)
       \/ run_req.mode \notin {"auto", "seeded"}
       \/ cal.mode = "taps" /\ (IsNone(cal.dims) \/ cal.corners = <<>>)

\* C12: an invalid request is rejected before any frame is decoded and
\* before tracking runs: while the request is invalid no frame is ever
\* stored and _track_points is never entered.
C12_InvalidRejectedBeforeDecode ==
    InvalidRequest => (run_frames = <<>> /\ trk_pc = "idle")

\* C14: run_pipeline never returns a result with an empty track: when
\* tracking gives zero points it raises and the job ends failed, and every
\* returned or succeeded result has at least one track point.
C14_NoResultWithoutTrackPoints ==
    /\ (run_pc = "returned" \/ run_out.status = "succeeded")
          => Len(run_res.track) >= 1
    /\ (trk_pc = "done" /\ track = <<>> /\ run_pc # "tracking") =>
          /\ run_pc \in {"raised", "written"}
          /\ run_out.exc = "RuntimeError"
          /\ run_pc = "written" => run_out.status = "failed"

C14_Witness ==
    trk_pc = "done" /\ track = <<>> /\ run_out.status = "failed"

\* The override o as an index of a track of n >= 1 points.
Within(o, n) == IF o > n - 1 THEN n - 1 ELSE IF o < 0 THEN 0 ELSE o

\* C17: a supplied override is the reported index, with confidence 1.0,
\* whatever the heuristic would say; without an override the impact is the
\* last track index with confidence 0.5; and every reported index lies in
\* [0, n - 1], an override beyond the track being brought into it.
C17_OverridesAndClamping ==
    ~IsNone(run_res.events) =>
        LET ev == Val(run_res.events)
            n == Len(run_res.track)
        IN /\ ev.bounce.index \in 0..(n - 1)
           /\ ev.impact.index \in 0..(n - 1)
           /\ ~IsNone(run_req.bounce_index) =>
                 ev.bounce = EventEstimate(Within(Val(run_req.bounce_index), n), 100)
           /\ ~IsNone(run_req.impact_index) =>
                 ev.impact = EventEstimate(Within(Val(run_req.impact_index), n), 100)
           /\ IsNone(run_req.impact_index) => ev.impact = EventEstimate(n - 1, 50)

C17_Witness ==
    /\ ~IsNone(run_res.events)
    /\ ~IsNone(run_req.bounce_index)
    /\ Val(run_req.bounce_index) > Len(run_res.track) - 1
    /\ IsNone(run_req.impact_index)

\* C18: the ground-plane sequence is the subsequence of the track points
\* whose image under the homography has a non-zero projective weight, in
\* track order and each with its own t_ms; a point of zero weight is left
\* out, never stored as a NaN; so the plane sequence is never longer than
\* the track.
C18_PlaneIsFiniteSubsequence ==
    ~IsNone(run_res.pitch_plane) =>
        LET pp == Val(run_res.pitch_plane)
            trk == run_res.track
            H == Val(run_res.calibration.homography)
            img(k) == apply_homography(H, trk[k].x_px, trk[k].y_px)
            F == {k \in 1..Len(trk) : img(k)[1][2] # 0 /\ img(k)[2][2] # 0}
        IN /\ Len(pp) = Cardinality(F)
           /\ Len(pp) <= Len(trk)
           /\ \A k \in F :
                 pp[Cardinality({l \in F : l <= k})] =
                     [t_ms |-> trk[k].t_ms, x_m |-> img(k)[1], y_m |-> img(k)[2]]
           /\ \A j \in 1..Len(pp) : pp[j].x_m[2] # 0 /\ pp[j].y_m[2] # 0

C18_Witness ==
    /\ ~IsNone(run_res.pitch_plane)
    /\ Len(Val(run_res.pitch_plane)) \in 1..(Len(run_res.track) - 1)

\* The calibration of the request fails: the taps request is complete, the
\* run gets as far as the calibration block, and the corners are not 4
\* (fewer than 4 correspondences, mismatched counts) or the solve fails.
CalibrationFails ==
    LET cal == run_req.calibration
    IN /\ cal.mode = "taps" /\ ~IsNone(cal.dims) /\ cal.corners # <<>>
       /\ Len(cal.corners) # 4 \/ cal.corners \in cv_none
       /\ run_res.track # <<>>

\* C19: every calibration failure ends the job failed with code
\* CALIBRATION_DEGENERATE, and no other failure has that code.
C19_CalibrationDegenerateOnlyForCalibration ==
    run_pc = "written" =>
        /\ CalibrationFails =>
              run_out.status = "failed" /\ run_out.code = "CALIBRATION_DEGENERATE"
        /\ run_out.code = "CALIBRATION_DEGENERATE" => CalibrationFails

C19_Witness ==
    /\ run_pc = "written"
    /\ run_out.code = "CALIBRATION_DEGENERATE"
    /\ Len(run_req.calibration.corners) = 4

\* C20: in every successful result, ground-plane points come with an LBW
\* assessment, however many plane points there are; and with calibration
\* mode none both pitch_plane and lbw are null.
C20_LbwWheneverPlanePoints ==
    run_out.status = "succeeded" =>
        /\ (~IsNone(run_res.pitch_plane) /\ Len(Val(run_res.pitch_plane)) >= 1)
              => ~IsNone(run_res.lbw)
        /\ run_req.calibration.mode = "none"
              => IsNone(run_res.pitch_plane) /\ IsNone(run_res.lbw)

\* C21: the prediction confidence of every LBW assessment lies in
\* [0, 0.99], whatever the fit quality and the point confidences, a perfect
\* fit and the fallback path included.
C21_PredictionConfidenceAtMost99 ==
    Assessed =>
        LET c == lbw_out.prediction_confidence
        IN c[1] >= 0 /\ c[2] > 0 /\ LeqFrac(c[1], c[2], 99, 100)

\* run_pipeline returned a result.
HasResult == run_pc = "returned" \/ run_out.status = "succeeded"

\* C22: the track points of every result start at start_ms, follow each
\* other at steps of max(1, round(1000 / sample_fps)) ms (so their t_ms is
\* strictly ascending), none is later than end_ms, and there are at most
\* max_frames of them.
C22_TrackFollowsSampling ==
    HasResult =>
        LET trk == run_res.track
            dt == SampleDt(run_req.sample_fps)
        IN /\ trk[1].t_ms = run_req.segment[1]
           /\ \A k \in 1..(Len(trk) - 1) :
                 /\ trk[k + 1].t_ms = trk[k].t_ms + dt
                 /\ trk[k].t_ms < trk[k + 1].t_ms
           /\ \A k \in 1..Len(trk) : trk[k].t_ms <= run_req.segment[2]
           /\ Len(trk) <= run_req.max_frames

\* One frame step of _track_points that selects a detection although the
\* tracker already has a position.
SelectsWithPosition ==
    /\ tracker = "track_points" /\ trk_pc = "loop" /\ trk_i' = trk_i + 1
    /\ ~IsNone(last_xy)
    /\ outcome'[trk_i'] # "none"

\* C23: once the tracker has a previous position, the detection taken as a
\* frame's measurement lies within the gate radius of the predicted
\* position; a frame whose candidates are all outside the gate selects
\* none of them.
C23_MeasurementOnlyInsideGate ==
    [][SelectsWithPosition =>
          Dist2([x |-> Val(last_xy')[1], y |-> Val(last_xy')[2]],
                Predict(last_xy, prev_xy)) <= SearchRadiusPx * SearchRadiusPx]_vars

\* One frame step of track_seeded or track_auto on which nothing was
\* detected although the filter exists.
GapFrameStep ==
    /\ tracker \in {"track_seeded", "track_auto"} /\ trk_pc = "loop"
    /\ trk_i' = trk_i + 1
    /\ ~IsNone(kf)
    /\ outcome'[trk_i'] = "none"

\* C24: on a frame with no detected measurement the filter state changes
\* only by the predict step, without a measurement update, in the seeded
\* and in the auto tracker.
C24_GapFramePredictsOnly ==
    [][GapFrameStep => kf' = Some(KfPredict(Val(kf), FrameDt(trk_i)))]_vars

\* C25: the points an LBW trajectory fit uses are the window of consecutive
\* points that ends at the impact index, starts no earlier than the bounce
\* index + 1 (the bounce point is never fitted) and holds at most
\* PredictionTailPoints points.
C25_FitWindowAfterBounce ==
    Assessed =>
        /\ lbw_out.fit_hi = lbw_out.impact_i
        /\ lbw_out.fit_lo >= lbw_out.bounce_i + 1
        /\ lbw_out.fit_hi - lbw_out.fit_lo + 1 <= PredictionTailPoints

\* C29: in every LBW assessment the decision agrees with the three checks:
\* out or umpires_call only with pitched-in-line, impact-in-line and
\* wickets-hitting all true; pitched-in-line or impact-in-line false gives
\* not_out; and likely_out (the field of the pipeline's payload) is true
\* exactly when the decision is out.
C29_DecisionAgreesWithChecks ==
    Assessed =>
        /\ lbw_out.decision \in {"out", "umpires_call"}
              => /\ lbw_out.pitched_in_line
                 /\ lbw_out.impact_in_line
                 /\ lbw_out.wickets_hitting
        /\ ~lbw_out.pitched_in_line \/ ~lbw_out.impact_in_line
              => lbw_out.decision = "not_out"
        /\ lbw_fn = "assess_lbw_2d"
              => (lbw_out.likely_out <=> lbw_out.decision = "out")

C29_Witness ==
    /\ Assessed /\ lbw_fn = "assess_lbw_2d"
    /\ lbw_out.decision = "out" /\ lbw_out.likely_out
    /\ lbw_out.pitched_in_line /\ lbw_out.impact_in_line /\ lbw_out.wickets_hitting

\* The plane mapper dropped a track point and the LBW step assessed the
\* remaining plane points.
PlaneLostPoints ==
    /\ HasResult
    /\ ~IsNone(run_res.pitch_plane) /\ ~IsNone(run_res.lbw)
    /\ Len(Val(run_res.pitch_plane)) < Len(run_res.track)

\* The track point a plane point is the image of (their t_ms identify them).
TrackPointOf(q) == CHOOSE p \in {run_res.track[k] : k \in 1..Len(run_res.track)} :
                       p.t_ms = q.t_ms

\* C30: when the plane mapper dropped track points, every index the LBW
\* step uses lies within the plane sequence, its bounce and impact points
\* are the plane images of the track points at the reported event indices,
\* and each fitted plane point is weighted by the confidence of its own
\* track point.
C30_LbwReadsRightPlanePoints ==
    PlaneLostPoints =>
        LET plane == Val(run_res.pitch_plane)
            a == Val(run_res.lbw)
            ev == Val(run_res.events)
        IN /\ {a.bounce_i, a.impact_i, a.fit_lo, a.fit_hi} \subseteq 0..(Len(plane) - 1)
           /\ plane[a.bounce_i + 1].t_ms = run_res.track[ev.bounce.index + 1].t_ms
           /\ plane[a.impact_i + 1].t_ms = run_res.track[ev.impact.index + 1].t_ms
           /\ \A k \in 1..(a.fit_hi - a.fit_lo + 1) :
                 a.weights[k] = TrackPointOf(plane[a.fit_lo + k]).confidence

\* C27: with two jobs running on the two workers, the log files of a job
\* (artifacts server.log and the central <job_id>.log) hold only records
\* that job emitted, and every record carries the id of the job that
\* emitted it.
C27_LogFilesHoldOwnRecords ==
    \A k \in DOMAIN log_files :
        \A r \in log_files[k] : r[1] = k /\ r[2] = r[1]

Terminal == {"succeeded", "failed"}

\* What one step may do to the status file of job j.
StatusStep(j) ==
    LET a == job_status[j].status
        b == job_status'[j].status
    IN /\ job_status'[j] # job_status[j] =>
             \/ a = "absent" /\ b = "queued"
             \/ a = "queued" /\ b = "running"
             \/ a = "running" /\ b \in {"running"} \cup Terminal
       /\ a \in Terminal => job_status'[j] = job_status[j]
       /\ job_pc[j] \in Terminal => a = job_pc[j]

\* C28: the status values written for one job are queued, then zero or
\* more running, then one terminal value (succeeded or failed); nothing is
\* written after the terminal value, succeeded is never followed by failed,
\* and a job is in the executor's queue, and taken by a worker, only after
\* its queued status is written.  (create_job writes the queued status
\* twice, in JobStore.create_job and before the submit; both are the
\* queued value.)
C28_StatusSequence ==
    [][/\ \A j \in DOMAIN job_status : StatusStep(j)
       /\ \A k \in 1..Len(exec_queue') :
             job_status'[exec_queue'[k]].status = "queued"
       /\ \A j \in DOMAIN job_pc :
             (job_pc'[j] = "starting" /\ job_pc[j] # "starting")
                => job_status[j].status = "queued"]_vars

\* A worker has finished a job that went through running to succeeded.
C28_Witness ==
    \E j \in DOMAIN job_status :
        /\ job_pc[j] = "succeeded" /\ job_status[j].status = "succeeded"
        /\ Len(job_log[j]) >= 2

\* C26: under any interleaving of the workers with status and result
\* requests, a request that reads status succeeded finds that job's
\* complete result (the result file is written before the succeeded
\* status), and a result is returned only when the status read was
\* succeeded.
C26_SucceededImpliesResult ==
    /\ \A j \in DOMAIN job_status :
          job_status[j].status = "succeeded" => job_result[j]
    /\ (rq.pc = "responded" /\ rq.endpoint = "result") =>
          /\ rq.status = "succeeded" => rq.result = Some(rq.job)
          /\ rq.result # None => rq.status = "succeeded"

\* A result request was answered with the result while the other worker's
\* job was still running.
C26_Witness ==
    /\ rq.pc = "responded" /\ rq.endpoint = "result"
    /\ rq.status = "succeeded" /\ rq.result = Some(rq.job)
    /\ \E k \in DOMAIN job_status : k # rq.job /\ job_status[k].status = "running"

====
